---- MODULE Spec2Model ----
(***************************************************************************)
(* A model of agent-memory's storage subsystem: the per-scope SQL files of *)
(* MemoryStore (src/agent_memory/store.py), the vector mirror              *)
(* (vector_store.py) and the command handlers that drive them (cli.py,     *)
(* web.py, pruning.py).                                                    *)
(*                                                                         *)
(* Abstractions, stated once:                                              *)
(*  - a text is a sequence of one-character strings;                       *)
(*  - a memory id "mem_<12 hex>" is a fresh number, and the wall clock is  *)
(*    a counter: every save takes the next value as its id and timestamp,  *)
(*    so created_at is distinct for distinct rows;                         *)
(*  - the JSON list stored in the groups column is modelled by the set of  *)
(*    its elements, the JSON object in the metadata column by a set of     *)
(*    <<key, value>> pairs;                                                *)
(*  - a MemoryStore is opened per command (get_store), so every operation  *)
(*    takes the project its store is bound to as `self` and opens the      *)
(*    files it touches (running _init_db on them).                         *)
(***************************************************************************)
EXTENDS Integers, Sequences, FiniteSets, TLC

VARIABLES sql, legacy, vec, clock, last, sessions, job, events, pending,
          managers

vars ==
    <<sql, legacy, vec, clock, last, sessions, job, events, pending, managers>>

\* ------------------------------------------------------------------ bounds
\* Number of ids / timestamps the clock hands out.
MaxClock == 2

\* ------------------------------------------------------------- the universe
GlobalFile == "global"
\* /ws/studio and its child /ws/studio/db-writer
Projects == {"P", "D"}
\* A store constructed with project_path = None.
NoProject == "-"
Files == {GlobalFile} \cup Projects
PathOf(p) == IF p = "P" THEN <<"/", "ws", "studio">>
             ELSE <<"/", "ws", "studio", "db-writer">>

ValidScopes == {"project", "group", "global"}
ValidCategories == {"factual", "decision", "task_history", "session_summary"}
GroupNames == {"backend", "web"}

NoTime == -1
NoCategory == "none"
NoMemory == [id |-> -1]
ValueError == [id |-> -2]
\* An exception other than ValueError leaves the call.
Raised == [id |-> -3]
IsMemory(m) == m.id >= 0

\* ------------------------------------------------------------------- text
LowerChar(c) == CASE c = "A" -> "a" [] c = "B" -> "b" [] OTHER -> c

Lower(s) == [i \in 1..Len(s) |-> LowerChar(s[i])]

\* Python's `needle in text`.
Contains(text, needle) ==
    \E i \in 0..(Len(text) - Len(needle)) :
        \A j \in 1..Len(needle) : text[i + j] = needle[j]

\* SQLite's `text LIKE pattern`: % matches any run of characters, _ any one
\* character, letters match case-insensitively.
RECURSIVE LikeFrom(_, _, _, _)
LikeFrom(pat, i, text, j) ==
    IF i > Len(pat) THEN j > Len(text)
    ELSE IF pat[i] = "%"
         THEN \E k \in j..(Len(text) + 1) : LikeFrom(pat, i + 1, text, k)
         ELSE /\ j <= Len(text)
              /\ \/ pat[i] = "_"
                 \/ LowerChar(pat[i]) = LowerChar(text[j])
              /\ LikeFrom(pat, i + 1, text, j + 1)

Like(text, pat) == LikeFrom(pat, 1, text, 1)

DecisionKeywords ==
    { <<"p","r","e","f","e","r">>, <<"c","h","o","s","e">>,
      <<"d","e","c","i","d","e","d">>, <<"r","e","j","e","c","t","e","d">>,
      <<"i","n","s","t","e","a","d"," ","o","f">>,
      <<"r","a","t","h","e","r"," ","t","h","a","n">>,
      <<"d","o","n","'","t"," ","u","s","e">>,
      <<"a","l","w","a","y","s"," ","u","s","e">>,
      <<"n","e","v","e","r"," ","u","s","e">>,
      <<"s","h","o","u","l","d"," ","u","s","e">>,
      <<"s","h","o","u","l","d","n","'","t">> }

TaskKeywords ==
    { <<"c","o","m","p","l","e","t","e","d">>,
      <<"i","m","p","l","e","m","e","n","t","e","d">>,
      <<"f","i","x","e","d">>, <<"a","d","d","e","d">>,
      <<"r","e","m","o","v","e","d">>,
      <<"r","e","f","a","c","t","o","r","e","d">>,
      <<"u","p","d","a","t","e","d">>, <<"c","r","e","a","t","e","d">>,
      <<"d","e","p","l","o","y","e","d">>, <<"m","i","g","r","a","t","e","d">> }

SummaryKeywords ==
    { <<"s","e","s","s","i","o","n">>, <<"s","u","m","m","a","r","y">>,
      <<"d","i","s","c","u","s","s","e","d">>, <<"c","o","v","e","r","e","d">>,
      <<"w","o","r","k","e","d"," ","o","n">>, <<"t","o","d","a","y"," ","w","e">>,
      <<"i","n"," ","t","h","i","s"," ","s","e","s","s","i","o","n">> }

detect_category(content) ==
    IF \E k \in DecisionKeywords : Contains(Lower(content), k) THEN "decision"
    ELSE IF \E k \in TaskKeywords : Contains(Lower(content), k) THEN "task_history"
    ELSE IF \E k \in SummaryKeywords : Contains(Lower(content), k)
         THEN "session_summary"
    ELSE "factual"

normalize_category(category, content) ==
    IF category = NoCategory \/ category \notin ValidCategories
    THEN detect_category(content)
    ELSE category

\* ------------------------------------------------------------------- time
is_expired(w, expires_at) == expires_at # NoTime /\ w.clock > expires_at

\* -------------------------------------------------------------- the world
\* The state the operations transform: the memories table of every file,
\* whether a file still has the legacy shape (a shared_groups column and no
\* groups column; the groups field of its rows then holds shared_groups), the
\* vector table of every file, and the clock.
World == [sql |-> sql, legacy |-> legacy, vec |-> vec, clock |-> clock]

Result(w, ret) == [w |-> w, ret |-> ret]

\* _migrate_groups_column on a legacy table: groups := shared_groups, and
\* scope := 'group' where groups is not '[]'.
MigrateRows(rows) ==
    { IF r.groups # {} THEN [r EXCEPT !.scope = "group"] ELSE r : r \in rows }

\* _get_global_conn / _get_project_conn: connect and run _init_db.
Conn(w, f) ==
    IF f \in Files /\ w.legacy[f]
    THEN [w EXCEPT !.sql[f] = MigrateRows(@), !.legacy[f] = FALSE]
    ELSE w

\* _get_conn: which file a scope lives in, for a store bound to `self`.
DbFile(self, scope) ==
    IF scope \in {"global", "group"} THEN GlobalFile ELSE self

\* MemoryStore.save
StoreSave(w, self, content, category, scope, pinned, source, metadata, expires_at, groups) ==
    LET memory_id == w.clock
        now == w.clock
        cat == normalize_category(category, content)
        db_scope == IF scope \in {"group", "global"} THEN "global" ELSE "project"
        f == DbFile(self, db_scope)
        row == [id |-> memory_id, content |-> content, category |-> cat,
                scope |-> scope, project_path |-> self, pinned |-> pinned,
                created_at |-> now, updated_at |-> now,
                expires_at |-> expires_at, source |-> source,
                metadata |-> metadata, groups |-> groups,
                access_count |-> 0, last_accessed_at |-> NoTime]
        w1 == Conn(w, f)
    IN  IF scope \notin ValidScopes THEN Result(w, ValueError)
        ELSE IF scope = "group" /\ groups = {} THEN Result(w, ValueError)
        ELSE IF f \notin Files THEN Result(w, ValueError)
        ELSE Result([w1 EXCEPT !.sql[f] = @ \cup {row}, !.clock = @ + 1], row)

RowById(rows, id) ==
    IF \E r \in rows : r.id = id THEN CHOOSE r \in rows : r.id = id
    ELSE NoMemory

\* ORDER BY created_at DESC LIMIT n (created_at is distinct for distinct rows).
RECURSIVE TopByCreated(_, _)
TopByCreated(rows, n) ==
    IF n <= 0 \/ rows = {} THEN << >>
    ELSE LET r == CHOOSE x \in rows : \A y \in rows : y.created_at <= x.created_at
         IN  <<r>> \o TopByCreated(rows \ {r}, n - 1)

\* ORDER BY access_count DESC LIMIT n: every order SQLite may give to rows of
\* equal access_count.
RECURSIVE TopByAccess(_, _)
TopByAccess(rows, n) ==
    IF n <= 0 \/ rows = {} THEN { << >> }
    ELSE UNION { { <<r>> \o s : s \in TopByAccess(rows \ {r}, n - 1) } :
                 r \in { x \in rows :
                           \A y \in rows : y.access_count <= x.access_count } }

SeqRange(s) == { s[i] : i \in 1..Len(s) }
Ids(s) == { s[i].id : i \in 1..Len(s) }

\* [m for m in memories if not is_expired(m.expires_at)]
DropExpired(w, s) ==
    LET Fresh(m) == ~is_expired(w, m.expires_at) IN SelectSeq(s, Fresh)

\* MemoryStore.get
StoreGet(w, self, memory_id, scope) ==
    LET f == DbFile(self, scope)
        w1 == Conn(w, f)
    IN  IF f \notin Files THEN Result(w, ValueError)
        ELSE Result(w1, RowById(w1.sql[f], memory_id))

\* MemoryStore.get_by_id
StoreGetById(w, self, memory_id) ==
    LET p == StoreGet(w, self, memory_id, "project")
    IN  IF self = NoProject THEN StoreGet(w, self, memory_id, "global")
        ELSE IF IsMemory(p.ret) THEN p
        ELSE StoreGet(p.w, self, memory_id, "global")

\* list without the scope condition on the rows of the global file.
StoreListWholeFile(w, self, scope, category, pinned_only, limit, include_expired) ==
    LET f == DbFile(self, scope)
        w1 == Conn(w, f)
        rows == { r \in w1.sql[f] :
                    /\ category # NoCategory => r.category = category
                    /\ pinned_only => r.pinned }
        memories == TopByCreated(rows, limit)
    IN  Result(w1, IF include_expired THEN memories
                   ELSE DropExpired(w1, memories))

\* MemoryStore.list
StoreList(w, self, scope, category, pinned_only, limit, include_expired) ==
    LET f == DbFile(self, scope)
        w1 == Conn(w, f)
        rows == { r \in w1.sql[f] :
                    /\ scope \in {"group", "global"} => r.scope = scope
                    /\ category # NoCategory => r.category = category
                    /\ pinned_only => r.pinned }
        memories == TopByCreated(rows, limit)
    IN  Result(w1, IF include_expired THEN memories
                   ELSE DropExpired(w1, memories))

ListPinnedLimit == 100

\* MemoryStore.list_pinned
StoreListPinned(w, self, scope) ==
    StoreList(w, self, scope, NoCategory, TRUE, ListPinnedLimit, FALSE)

NoName == "none"
LowerName(g) == IF g = "ALL" THEN "all" ELSE g

\* MemoryStore.list_by_group
StoreListByGroup(w, self, group_name, pinned_only, category, limit, include_expired) ==
    LET w1 == Conn(w, GlobalFile)
        rows == { r \in w1.sql[GlobalFile] :
                    /\ r.scope = "group"
                    /\ category # NoCategory => r.category = category
                    /\ pinned_only => r.pinned }
        memories == TopByCreated(rows, limit)
        InGroup(m) == group_name \in m.groups
        named == IF group_name # NoName /\ LowerName(group_name) # "all"
                 THEN SelectSeq(memories, InGroup)
                 ELSE memories
    IN  Result(w1, IF include_expired THEN named ELSE DropExpired(w1, named))

\* MemoryStore.search_keyword
StoreSearchKeyword(w, self, query, scope, limit) ==
    LET f == DbFile(self, scope)
        w1 == Conn(w, f)
        rows == { r \in w1.sql[f] : Like(r.content, <<"%">> \o query \o <<"%">>) }
    IN  Result(w1, DropExpired(w1, TopByCreated(rows, limit)))

\* MemoryStore.update: `upd` holds the fields the caller passed (not None).
StoreUpdate(w, self, memory_id, scope, upd) ==
    LET g == StoreGet(w, self, memory_id, scope)
        f == DbFile(self, scope)
        now == g.w.clock
        Upd(r) ==
            [r EXCEPT
               !.updated_at = now,
               !.content = IF "content" \in DOMAIN upd THEN upd.content ELSE @,
               !.category = IF "category" \in DOMAIN upd THEN upd.category ELSE @,
               !.pinned = IF "pinned" \in DOMAIN upd THEN upd.pinned ELSE @,
               !.metadata = IF "metadata" \in DOMAIN upd THEN upd.metadata ELSE @]
    IN  IF ~IsMemory(g.ret) THEN Result(g.w, NoMemory)
        ELSE Result([g.w EXCEPT !.sql[f] = (@ \ {g.ret}) \cup {Upd(g.ret)}],
                    Upd(g.ret))

\* MemoryStore.pin / unpin
StorePin(w, self, memory_id, scope) ==
    StoreUpdate(w, self, memory_id, scope, [pinned |-> TRUE])

StoreUnpin(w, self, memory_id, scope) ==
    StoreUpdate(w, self, memory_id, scope, [pinned |-> FALSE])

\* UPDATE memories SET groups = ?, updated_at = ? WHERE id = ? on the global
\* file, then get_by_id.
SetGroupsRow(w, self, memory_id, new_groups) ==
    LET w1 == Conn(w, GlobalFile)
        w2 == [w1 EXCEPT !.sql[GlobalFile] =
                 { IF r.id = memory_id
                   THEN [r EXCEPT !.groups = new_groups,
                                  !.updated_at = w1.clock]
                   ELSE r : r \in @ }]
    IN  StoreGetById(w2, self, memory_id)

\* MemoryStore.add_groups
StoreAddGroups(w, self, memory_id, group_names) ==
    LET g == StoreGetById(w, self, memory_id)
    IN  IF ~IsMemory(g.ret) THEN Result(g.w, NoMemory)
        ELSE IF g.ret.scope # "group" THEN Result(g.w, ValueError)
        ELSE SetGroupsRow(g.w, self, memory_id, g.ret.groups \cup group_names)

\* MemoryStore.remove_groups
StoreRemoveGroups(w, self, memory_id, group_names) ==
    LET g == StoreGetById(w, self, memory_id)
        new_groups == IF IsMemory(g.ret) THEN g.ret.groups \ group_names ELSE {}
    IN  IF ~IsMemory(g.ret) THEN Result(g.w, NoMemory)
        ELSE IF g.ret.scope # "group" THEN Result(g.w, ValueError)
        ELSE IF new_groups = {} THEN Result(g.w, ValueError)
        ELSE SetGroupsRow(g.w, self, memory_id, new_groups)

\* MemoryStore.set_groups
StoreSetGroups(w, self, memory_id, group_names) ==
    LET g == StoreGetById(w, self, memory_id)
    IN  IF ~IsMemory(g.ret) THEN Result(g.w, NoMemory)
        ELSE IF g.ret.scope # "group" THEN Result(g.w, ValueError)
        ELSE IF group_names = {} THEN Result(g.w, ValueError)
        ELSE SetGroupsRow(g.w, self, memory_id, group_names)

\* MemoryStore.delete: ret is whether a row was deleted.
StoreDelete(w, self, memory_id, scope) ==
    LET f == DbFile(self, scope)
        w1 == Conn(w, f)
        hit == { r \in w1.sql[f] : r.id = memory_id }
    IN  Result([w1 EXCEPT !.sql[f] = @ \ hit], hit # {})

\* MemoryStore.delete_by_id
StoreDeleteById(w, self, memory_id) ==
    LET p == StoreDelete(w, self, memory_id, "project")
    IN  IF p.ret THEN p ELSE StoreDelete(p.w, self, memory_id, "global")

\* MemoryStore.set_scope
StoreSetScope(w, self, memory_id, new_scope, groups) ==
    LET g == StoreGetById(w, self, memory_id)
        memory == g.ret
        old_db == IF memory.scope \in {"group", "global"} THEN "global"
                  ELSE "project"
        new_db == IF new_scope \in {"group", "global"} THEN "global"
                  ELSE "project"
        f == DbFile(self, old_db)
        w1 == Conn(g.w, f)
        new_groups == IF new_scope = "group" THEN groups ELSE {}
        w2 == [w1 EXCEPT !.sql[f] =
                 { IF r.id = memory_id
                   THEN [r EXCEPT !.scope = new_scope, !.groups = new_groups,
                                  !.updated_at = w1.clock]
                   ELSE r : r \in @ }]
        d == StoreDelete(g.w, self, memory_id, old_db)
    IN  IF ~IsMemory(memory) THEN Result(g.w, NoMemory)
        ELSE IF new_scope \notin ValidScopes THEN Result(g.w, ValueError)
        ELSE IF new_scope = "group" /\ groups = {} THEN Result(g.w, ValueError)
        ELSE IF old_db = new_db THEN StoreGetById(w2, self, memory_id)
        ELSE StoreSave(d.w, self, memory.content, memory.category, new_scope,
                       memory.pinned, memory.source, memory.metadata, NoTime,
                       new_groups)

\* MemoryStore.promote: from_project is the source project (the store's own
\* when the caller passes None); to_group = {} stands for None or empty.
StorePromote(w, self, memory_id, from_project, to_group) ==
    LET g == StoreGet(w, from_project, memory_id, "project")
        memory == g.ret
        target_scope == IF to_group # {} THEN "group" ELSE "global"
        s == StoreSave(g.w, self, memory.content, memory.category,
                       target_scope, memory.pinned, memory.source,
                       memory.metadata, NoTime, to_group)
        d == StoreDelete(s.w, from_project, memory_id, "project")
    IN  IF ~IsMemory(memory) THEN Result(g.w, NoMemory)
        ELSE Result(d.w, s.ret)

\* MemoryStore.unpromote
StoreUnpromote(w, self, memory_id, to_project) ==
    LET g == StoreGet(w, self, memory_id, "global")
        memory == g.ret
        s == StoreSave(g.w, to_project, memory.content, memory.category,
                       "project", memory.pinned, memory.source,
                       memory.metadata, NoTime, {})
        d == StoreDelete(s.w, self, memory_id, "global")
    IN  IF ~IsMemory(memory) THEN Result(g.w, NoMemory)
        ELSE IF memory.scope \notin {"global", "group"}
             THEN Result(g.w, ValueError)
        ELSE Result(d.w, s.ret)

\* MemoryStore.record_access
StoreRecordAccess(w, self, memory_id, scope) ==
    LET f == DbFile(self, scope)
        w1 == Conn(w, f)
    IN  IF f \notin Files THEN Result(w, ValueError)
        ELSE Result([w1 EXCEPT !.sql[f] =
                       { IF r.id = memory_id
                         THEN [r EXCEPT !.access_count = @ + 1,
                                        !.last_accessed_at = w1.clock]
                         ELSE r : r \in @ }],
                    NoMemory)

\* The UPDATE of record_access_batch run for each id of the list in turn.
RECURSIVE AccessAll(_, _, _)
AccessAll(rows, memory_ids, now) ==
    IF memory_ids = << >> THEN rows
    ELSE AccessAll({ IF r.id = Head(memory_ids)
                     THEN [r EXCEPT !.access_count = @ + 1,
                                    !.last_accessed_at = now]
                     ELSE r : r \in rows },
                   Tail(memory_ids), now)

\* record_access_batch that stops after the first id.
StoreRecordAccessFirst(w, self, memory_ids, scope) ==
    IF memory_ids = << >> THEN Result(w, NoMemory)
    ELSE StoreRecordAccess(w, self, Head(memory_ids), scope)

\* MemoryStore.record_access_batch
StoreRecordAccessBatch(w, self, memory_ids, scope) ==
    LET f == DbFile(self, scope)
        w1 == Conn(w, f)
    IN  IF memory_ids = << >> THEN Result(w, NoMemory)
        ELSE IF f \notin Files THEN Result(w, ValueError)
        ELSE Result([w1 EXCEPT !.sql[f] = AccessAll(@, memory_ids, w1.clock)],
                    NoMemory)

\* MemoryStore.get_most_accessed: the set of lists the query may return.
StoreGetMostAccessed(w, self, scope, limit) ==
    LET f == DbFile(self, scope)
        w1 == Conn(w, f)
    IN  TopByAccess({ r \in w1.sql[f] :
                        /\ r.access_count > 0
                        /\ scope \in {"group", "global"} => r.scope = scope },
                    limit)

\* MemoryStore.get_pin_candidates: the set of lists the query may return.
StoreGetPinCandidates(w, self, scope, min_access, limit) ==
    LET f == DbFile(self, scope)
        w1 == Conn(w, f)
    IN  TopByAccess({ r \in w1.sql[f] :
                        /\ r.access_count >= min_access
                        /\ ~r.pinned
                        /\ scope \in {"group", "global"} => r.scope = scope },
                    limit)

\* ---------------------------------------------------- descendant projects
IsPrefix(a, b) == Len(a) <= Len(b) /\ \A i \in 1..Len(a) : a[i] = b[i]

MaxResults == 20

\* The loop of config.find_descendant_project_paths over the storage
\* directories in the order iterdir yields them: a stored path that is not
\* under parent, or is parent itself, is skipped; a descendant is appended and
\* the loop stops once len(results) >= max_results.
RECURSIVE ScanProjects(_, _, _, _)
ScanProjects(dirs, parent_resolved, max_results, results) ==
    IF dirs = << >> THEN results
    ELSE LET original_path == Head(dirs)
             found == Append(results, original_path)
         IN  IF \/ ~IsPrefix(parent_resolved, original_path)
                \/ original_path = parent_resolved
             THEN ScanProjects(Tail(dirs), parent_resolved, max_results,
                               results)
             ELSE IF Len(found) >= max_results THEN found
             ELSE ScanProjects(Tail(dirs), parent_resolved, max_results, found)

\* config.find_descendant_project_paths over the storage directories dirs.
FindDescendantProjectPaths(dirs, parent_dir, max_results) ==
    IF Len(parent_dir) <= 2 THEN << >>
    ELSE ScanProjects(dirs, parent_dir, max_results, << >>)

\* The .project_path files under projects/.
StoredDirs == <<PathOf("P"), PathOf("D")>>

\* config.find_descendant_project_paths: the stored projects whose path is a
\* strict descendant of parent_dir, at most max_results of them.
find_descendant_project_paths(parent_dir, max_results) ==
    LET found == FindDescendantProjectPaths(StoredDirs, PathOf(parent_dir),
                                            max_results)
    IN  { p \in Projects : \E i \in 1..Len(found) : found[i] = PathOf(p) }

\* MemoryStore._descendant_db_paths
DescendantDbPaths(self) == find_descendant_project_paths(self, MaxResults)

\* MemoryStore._query_db_file: a plain connection, no _init_db.
QueryDbFile(w, f, category, pinned_only, limit) ==
    LET rows == { r \in w.sql[f] :
                    /\ category # NoCategory => r.category = category
                    /\ pinned_only => r.pinned }
    IN  DropExpired(w, TopByCreated(rows, limit))

\* MemoryStore._search_db_file: a plain connection, no _init_db.
SearchDbFile(w, f, query, limit) ==
    LET rows == { r \in w.sql[f] : Like(r.content, <<"%">> \o query \o <<"%">>) }
    IN  DropExpired(w, TopByCreated(rows, limit))

\* all_memories.sort(key=created_at, reverse=True)[:limit] over the rows
\* collected, each id once.
MergeSorted(rows, limit) == TopByCreated(rows, limit)

\* list_with_descendants opening each descendant file the way the store
\* opens its own (connect, then _init_db).
ListWithDescendantsInitDb(w, self, category, pinned_only, limit, include_expired) ==
    LET RECURSIVE OpenAll(_, _)
        OpenAll(v, ds) ==
            IF ds = {} THEN v
            ELSE LET d == CHOOSE x \in ds : TRUE
                 IN  OpenAll(Conn(v, d), ds \ {d})
        cur == StoreList(w, self, "project", category, pinned_only, limit,
                         include_expired)
        w1 == OpenAll(cur.w, DescendantDbPaths(self))
        desc == UNION { SeqRange(QueryDbFile(w1, d, category, pinned_only,
                                             limit)) :
                        d \in DescendantDbPaths(self) }
        fresh == { m \in desc : m.id \notin Ids(cur.ret) }
    IN  Result(w1, MergeSorted(SeqRange(cur.ret) \cup fresh, limit))

\* MemoryStore.list_with_descendants
StoreListWithDescendants(w, self, category, pinned_only, limit, include_expired) ==
    LET cur == StoreList(w, self, "project", category, pinned_only, limit,
                         include_expired)
        desc == UNION { SeqRange(QueryDbFile(cur.w, d, category, pinned_only,
                                             limit)) :
                        d \in DescendantDbPaths(self) }
        fresh == { m \in desc : m.id \notin Ids(cur.ret) }
    IN  Result(cur.w, MergeSorted(SeqRange(cur.ret) \cup fresh, limit))

\* MemoryStore.search_with_descendants
StoreSearchWithDescendants(w, self, query, limit) ==
    LET cur == StoreSearchKeyword(w, self, query, "project", limit)
        desc == UNION { SeqRange(SearchDbFile(cur.w, d, query, limit)) :
                        d \in DescendantDbPaths(self) }
        fresh == { m \in desc : m.id \notin Ids(cur.ret) }
    IN  Result(cur.w, MergeSorted(SeqRange(cur.ret) \cup fresh, limit))

\* MemoryStore.search_with_groups: include_groups = {} stands for None.
StoreSearchWithGroups(w, self, query, include_project, include_global, include_groups, limit) ==
    LET p == IF include_project
             THEN StoreSearchKeyword(w, self, query, "project", limit)
             ELSE Result(w, << >>)
        g == IF include_global
             THEN StoreSearchKeyword(p.w, self, query, "global", limit)
             ELSE Result(p.w, << >>)
        lg == IF include_groups # {}
              THEN StoreListByGroup(g.w, self, NoName, FALSE, NoCategory,
                                    limit * 2, FALSE)
              ELSE Result(g.w, << >>)
        matching == { m \in SeqRange(lg.ret) :
                        /\ Contains(Lower(m.content), Lower(query))
                        /\ \/ "all" \in { LowerName(x) : x \in include_groups }
                           \/ m.groups \cap include_groups # {} }
        results == { m \in SeqRange(p.ret) \cup SeqRange(g.ret) \cup matching :
                       ~is_expired(lg.w, m.expires_at) }
    IN  Result(lg.w, TopByCreated(results, limit))

\* ----------------------------------------------------------- vector store
VecRecord(memory_id, content, category, scope, groups) ==
    [memory_id |-> memory_id, content |-> content, category |-> category,
     scope |-> scope, groups |-> groups]

\* VectorStore.add
VecAdd(w, self, memory_id, content, category, scope, groups) ==
    [w EXCEPT !.vec[DbFile(self, scope)] =
       @ \cup {VecRecord(memory_id, content, category, scope, groups)}]

\* VectorStore.delete
VecDelete(w, self, memory_id, scope) ==
    [w EXCEPT !.vec[DbFile(self, scope)] =
       { v \in @ : v.memory_id # memory_id }]

\* VectorStore.delete_by_id
VecDeleteById(w, self, memory_id) ==
    VecDelete(VecDelete(w, self, memory_id, "project"), self, memory_id,
              "global")

\* ---------------------------------------------------------------- pruning
NoDays == -1
NoScope == "none"
FindLimit == 10000

\* find_candidates where one matching criterion is enough also when both
\* are given.
CandidatesOfAny(now, memories, older_than_days, never_accessed, exclude_pinned) ==
    LET Keep(m) ==
            /\ ~(exclude_pinned /\ m.pinned)
            /\ \/ older_than_days # NoDays /\ now - m.created_at >= older_than_days
               \/ never_accessed /\ m.access_count = 0
        kept == SelectSeq(memories, Keep)
    IN  [i \in 1..Len(kept) |-> [memory |-> kept[i], reasons |-> {}]]

\* PruningEngine.find_candidates over one scope: the memories store.list
\* returns, with the reasons each one matched.
CandidatesOf(now, memories, older_than_days, never_accessed, exclude_pinned) ==
    LET Reasons(m) ==
            (IF older_than_days # NoDays
                /\ now - m.created_at >= older_than_days
             THEN {"older"} ELSE {})
            \cup (IF never_accessed /\ m.access_count = 0
                  THEN {"never accessed"} ELSE {})
        Keep(m) ==
            /\ ~(exclude_pinned /\ m.pinned)
            /\ IF older_than_days # NoDays /\ never_accessed
               THEN Cardinality(Reasons(m)) >= 2
               ELSE Reasons(m) # {}
        kept == SelectSeq(memories, Keep)
    IN  [i \in 1..Len(kept) |-> [memory |-> kept[i], reasons |-> Reasons(kept[i])]]

\* PruningEngine.find_candidates
RECURSIVE FindIn(_, _, _, _, _, _, _)
FindIn(w, self, scopes, older_than_days, never_accessed, category, exclude_pinned) ==
    IF scopes = << >> THEN Result(w, << >>)
    ELSE LET l == StoreList(w, self, Head(scopes), category, FALSE, FindLimit,
                            FALSE)
             rest == FindIn(l.w, self, Tail(scopes), older_than_days,
                            never_accessed, category, exclude_pinned)
         IN  Result(rest.w,
                    CandidatesOf(w.clock, l.ret, older_than_days,
                                 never_accessed, exclude_pinned) \o rest.ret)

FindCandidates(w, self, scope, older_than_days, never_accessed, category, exclude_pinned) ==
    FindIn(w, self,
           IF scope # NoScope THEN <<scope>> ELSE <<"project", "group", "global">>,
           older_than_days, never_accessed, category, exclude_pinned)

\* prune counting every candidate, deleted or not.
EnginePruneCountAll(w, self, candidates, vok) ==
    LET RECURSIVE Run(_, _)
        Run(w0, cs) ==
            IF cs = << >> THEN w0
            ELSE LET memory == Head(cs).memory
                     d == StoreDeleteById(w0, self, memory.id)
                 IN  Run(IF d.ret /\ vok
                         THEN VecDelete(d.w, self, memory.id, memory.scope)
                         ELSE d.w,
                         Tail(cs))
    IN  Result(Run(w, candidates), Len(candidates))

\* PruningEngine.prune: ret is the number of SQL rows deleted. `vok` says
\* whether a vector store is configured and its delete goes through.
RECURSIVE EnginePrune(_, _, _, _)
EnginePrune(w, self, candidates, vok) ==
    IF candidates = << >> THEN Result(w, 0)
    ELSE LET memory == Head(candidates).memory
             d == StoreDeleteById(w, self, memory.id)
             w1 == IF d.ret /\ vok
                   THEN VecDelete(d.w, self, memory.id, memory.scope)
                   ELSE d.w
             rest == EnginePrune(w1, self, Tail(candidates), vok)
         IN  Result(rest.w, rest.ret + (IF d.ret THEN 1 ELSE 0))

\* --------------------------------------------------------------- actions
\* sessions.json of project P before any session, and a SessionManager with
\* no current session.
NoSession == 0
NoSessions == [file |-> << >>, current |-> NoSession]

\* No prune command waits at its confirmation prompt.
NoPending ==
    [candidates |-> << >>, exclude_pinned |-> FALSE, never_accessed |-> FALSE]

\* No other SessionManager is at work on sessions.json: a second manager is
\* between two calls, holding no list it loaded.
NoManagers == [pc |-> "idle", loaded |-> << >>, target |-> 0]

\* No compaction run is under way.
NoJob ==
    [pc |-> "idle", clusters |-> << >>, k |-> 0, target_scope |-> NoScope,
     target_groups |-> {}, new_memory |-> NoMemory, todo |-> {},
     before |-> [f \in Files |-> {}], failed |-> 0, vec_failed |-> FALSE,
     del_failed |-> FALSE, retried |-> FALSE]

\* events.db right after EventLog(config): the table exists and is empty, no
\* id was handed out, the connection made by _init_db is open.
NoEvents == [rows |-> << >>, seq |-> 0, conn |-> TRUE]

\* Every action is one call on a store bound to `self`: it commits the world
\* the call leaves and records the call and what it returned.
Commit(r, op, self, arg) ==
    /\ r.w.clock <= MaxClock
    /\ sql' = r.w.sql
    /\ legacy' = r.w.legacy
    /\ vec' = r.w.vec
    /\ clock' = r.w.clock
    /\ last' = [op |-> op, self |-> self, arg |-> arg, ret |-> r.ret]
    /\ UNCHANGED <<sessions, job, events, pending, managers>>

\* What a call returned is recorded as a Memory (NoMemory for None,
\* ValueError for a raise), as [memories |-> list] or as [deleted |-> bool].
Listed(r) == [w |-> r.w, ret |-> [memories |-> r.ret]]
Flagged(r) == [w |-> r.w, ret |-> [deleted |-> r.ret]]

\* The ids a caller may pass: those of the stored memories and one that no
\* memory has.
ArgIds == { r.id : r \in UNION { sql[f] : f \in Files } } \cup {clock}

Save(self, content, category, scope, pinned, expires_at, groups) ==
    Commit(StoreSave(World, self, content, category, scope, pinned,
                     "user_explicit", {}, expires_at, groups),
           "save", self, [scope |-> scope, groups |-> groups])

Pin(self, id, scope) ==
    Commit(StorePin(World, self, id, scope), "pin", self, [id |-> id])

Update(self, id, scope, upd) ==
    Commit(StoreUpdate(World, self, id, scope, upd), "update", self,
           [id |-> id])

SetScope(self, id, new_scope, groups) ==
    Commit(StoreSetScope(World, self, id, new_scope, groups), "set_scope",
           self,
           [id |-> id, scope |-> new_scope,
            old |-> LET m == StoreGetById(World, self, id).ret
                    IN  IF IsMemory(m) THEN m.scope ELSE NoScope])

Promote(self, id, from_project, to_group) ==
    Commit(StorePromote(World, self, id, from_project, to_group), "promote",
           self, [id |-> id])

Unpromote(self, id, to_project) ==
    Commit(StoreUnpromote(World, self, id, to_project), "unpromote", self,
           [id |-> id])

AddGroups(self, id, names) ==
    Commit(StoreAddGroups(World, self, id, names), "add_groups", self,
           [id |-> id])

RemoveGroups(self, id, names) ==
    Commit(StoreRemoveGroups(World, self, id, names), "remove_groups", self,
           [id |-> id])

SetGroups(self, id, names) ==
    Commit(StoreSetGroups(World, self, id, names), "set_groups", self,
           [id |-> id])

Delete(self, id, scope) ==
    Commit(Flagged(StoreDelete(World, self, id, scope)), "delete", self, [id |-> id])

DeleteById(self, id) ==
    Commit(Flagged(StoreDeleteById(World, self, id)), "delete_by_id", self,
           [id |-> id])

\* Number of accesses recorded per memory.
MaxAccess == 1

RecordAccess(self, id, scope) ==
    /\ DbFile(self, scope) \in Files =>
         \A r \in sql[DbFile(self, scope)] :
             r.id = id => r.access_count < MaxAccess
    /\ Commit(StoreRecordAccess(World, self, id, scope), "record_access", self,
              [id |-> id, scope |-> scope])

RecordAccessBatch(self, ids, scope) ==
    /\ DbFile(self, scope) \in Files =>
         \A r \in sql[DbFile(self, scope)] :
             r.id \in SeqRange(ids) => r.access_count < MaxAccess
    /\ Commit(StoreRecordAccessBatch(World, self, ids, scope),
              "record_access_batch", self, [ids |-> ids, scope |-> scope])

\* Opening the file of a scope, as every call does first.
Open(self, scope) ==
    Commit(Result(Conn(World, DbFile(self, scope)), NoMemory), "open", self,
           [scope |-> scope])

\* The reads: include_expired is recorded for every read, FALSE where the
\* read has no such parameter.
Get(self, id, scope) ==
    Commit(StoreGet(World, self, id, scope), "get", self,
           [id |-> id, include_expired |-> FALSE])

GetById(self, id) ==
    Commit(StoreGetById(World, self, id), "get_by_id", self,
           [id |-> id, include_expired |-> FALSE])

List(self, scope, category, pinned_only, limit, include_expired) ==
    Commit(Listed(StoreList(World, self, scope, category, pinned_only, limit,
                            include_expired)),
           "list", self,
           [scope |-> scope, category |-> category,
            pinned_only |-> pinned_only, limit |-> limit,
            include_expired |-> include_expired])

ListPinned(self, scope) ==
    Commit(Listed(StoreListPinned(World, self, scope)), "list_pinned", self,
           [scope |-> scope, include_expired |-> FALSE])

ListByGroup(self, group_name, pinned_only, category, limit, include_expired) ==
    Commit(Listed(StoreListByGroup(World, self, group_name, pinned_only,
                                   category, limit, include_expired)),
           "list_by_group", self,
           [group_name |-> group_name, limit |-> limit,
            include_expired |-> include_expired])

SearchKeyword(self, query, scope, limit) ==
    Commit(Listed(StoreSearchKeyword(World, self, query, scope, limit)),
           "search_keyword", self,
           [query |-> query, scope |-> scope, limit |-> limit,
            include_expired |-> FALSE])

SearchWithGroups(self, query, include_project, include_global, include_groups, limit) ==
    Commit(Listed(StoreSearchWithGroups(World, self, query, include_project,
                                        include_global, include_groups,
                                        limit)),
           "search_with_groups", self,
           [query |-> query, include_project |-> include_project,
            include_global |-> include_global,
            include_groups |-> include_groups, limit |-> limit,
            include_expired |-> FALSE])

ListWithDescendants(self, category, pinned_only, limit, include_expired) ==
    Commit(Listed(StoreListWithDescendants(World, self, category,
                                           pinned_only, limit,
                                           include_expired)),
           "list_with_descendants", self,
           [category |-> category, pinned_only |-> pinned_only,
            limit |-> limit, include_expired |-> include_expired])

SearchWithDescendants(self, query, limit) ==
    Commit(Listed(StoreSearchWithDescendants(World, self, query, limit)),
           "search_with_descendants", self,
           [query |-> query, limit |-> limit, include_expired |-> FALSE])

GetMostAccessed(self, scope, limit) ==
    \E ret \in StoreGetMostAccessed(World, self, scope, limit) :
        Commit(Listed(Result(Conn(World, DbFile(self, scope)), ret)),
               "get_most_accessed", self,
               [scope |-> scope, include_expired |-> FALSE])

GetPinCandidates(self, scope, min_access, limit) ==
    \E ret \in StoreGetPinCandidates(World, self, scope, min_access, limit) :
        Commit(Listed(Result(Conn(World, DbFile(self, scope)), ret)),
               "get_pin_candidates", self,
               [scope |-> scope, include_expired |-> FALSE])

\* cli save: the row, then its vector record when a vector store is there.
CliSave(self, content, scope, pinned, groups, vok) ==
    LET r == StoreSave(World, self, content, NoCategory, scope, pinned,
                       "user_explicit", {}, NoTime, groups)
        memory == r.ret
    IN  Commit(Result(IF IsMemory(memory) /\ vok
                      THEN VecAdd(r.w, self, memory.id, content,
                                  memory.category, scope, groups)
                      ELSE r.w,
                      memory),
               "cli_save", self, [scope |-> scope])

\* cli forget <id>
CliForget(self, id, vok) ==
    LET d == StoreDeleteById(World, self, id)
    IN  Commit(Flagged(Result(IF d.ret /\ vok
                              THEN VecDeleteById(d.w, self, id)
                              ELSE d.w,
                              d.ret)),
               "forget", self, [id |-> id])

\* web DELETE /api/memories/<id>
WebDelete(self, id) ==
    Commit(Flagged(StoreDeleteById(World, self, id)), "web_delete", self,
           [id |-> id])

\* cli prune --yes: the candidates found are the memories pruned.
CliPrune(self, scope, older_than_days, never_accessed, include_pinned, vok) ==
    LET c == FindCandidates(World, self, scope, older_than_days,
                            never_accessed, NoCategory, ~include_pinned)
        r == EnginePrune(c.w, self, c.ret, vok)
    IN  Commit(Result(r.w, [pruned |-> r.ret]), "prune", self,
               [ids |-> { c.ret[i].memory.id : i \in 1..Len(c.ret) }])

\* ---------------------------------------------------------- specification
Empty ==
    /\ sql = [f \in Files |-> {}]
    /\ vec = [f \in Files |-> {}]
    /\ last = [op |-> "init", self |-> "P", arg |-> [id |-> -1],
               ret |-> NoMemory]
    /\ sessions = NoSessions
    /\ job = NoJob
    /\ events = NoEvents
    /\ pending = NoPending
    /\ managers = NoManagers

\* Fresh installation: no file has rows, every table has the current shape.
Init ==
    /\ Empty
    /\ legacy = [f \in Files |-> FALSE]
    /\ clock = 0

TheContent == <<"a">>
GroupSets == { {}, {"backend"}, {"backend", "web"} }

\* The store API driven with every scope and groups argument.
Next ==
    \/ \E scope \in ValidScopes \cup {"team"}, groups \in GroupSets :
         Save("P", TheContent, NoCategory, scope, FALSE, NoTime, groups)
    \/ \E id \in ArgIds, scope \in {"project", "global"} :
         Update("P", id, scope, [pinned |-> TRUE])
    \/ \E id \in ArgIds, scope \in ValidScopes \cup {"team"},
          groups \in GroupSets :
         SetScope("P", id, scope, groups)
    \/ \E id \in ArgIds, from \in Projects, groups \in GroupSets :
         Promote("P", id, from, groups)
    \/ \E id \in ArgIds, to \in Projects : Unpromote("P", id, to)
    \/ \E id \in ArgIds, names \in GroupSets : AddGroups("P", id, names)
    \/ \E id \in ArgIds, names \in GroupSets : RemoveGroups("P", id, names)
    \/ \E id \in ArgIds, names \in GroupSets : SetGroups("P", id, names)
    \/ \E id \in ArgIds, scope \in {"project", "global"} :
         Delete("P", id, scope)

Spec == Init /\ [][Next]_vars

\* A database written by an earlier release: the table of P has the legacy
\* shape (shared_groups, no groups column) and holds one project row, shared
\* with any set of groups.
\* Its id is none the clock hands out, its timestamps are before the clock
\* starts.
LegacyId == MaxClock + 1

LegacyRow(scope, project_path, shared_groups) ==
    [id |-> LegacyId, content |-> TheContent, category |-> "factual",
     scope |-> scope, project_path |-> project_path, pinned |-> FALSE,
     created_at |-> -2, updated_at |-> -2, expires_at |-> NoTime,
     source |-> "user_explicit", metadata |-> {}, groups |-> shared_groups,
     access_count |-> 0, last_accessed_at |-> NoTime]

InitLegacy ==
    /\ \E shared_groups \in GroupSets :
         sql = [f \in Files |->
                  IF f = "P"
                  THEN {LegacyRow("project", "P", shared_groups)}
                  ELSE {}]
    /\ legacy = [f \in Files |-> f = "P"]
    /\ vec = [f \in Files |-> {}]
    /\ last = [op |-> "init", self |-> "P", arg |-> [id |-> -1],
               ret |-> NoMemory]
    /\ sessions = NoSessions
    /\ job = NoJob
    /\ events = NoEvents
    /\ pending = NoPending
    /\ managers = NoManagers
    /\ clock = 0

\* Opening the legacy file and then writing to it.
NextLegacy ==
    \/ \E scope \in {"project", "global"} : Open("P", scope)
    \/ \E scope \in ValidScopes, groups \in GroupSets :
         Save("P", TheContent, NoCategory, scope, FALSE, NoTime, groups)
    \/ \E id \in ArgIds, scope \in ValidScopes, groups \in GroupSets :
         SetScope("P", id, scope, groups)
    \/ \E id \in ArgIds, names \in GroupSets : RemoveGroups("P", id, names)
    \/ \E id \in ArgIds : DeleteById("P", id)

SpecLegacy == InitLegacy /\ [][NextLegacy]_vars

\* Memories with and without an expiry, in P and in its descendant D, read
\* back by a store bound to P through every read operation. An expiry of
\* `clock` is passed by the time the save returns.
NextExpiry ==
    \/ \E self \in Projects, scope \in {"project", "group"},
          pinned \in BOOLEAN, expires_at \in {NoTime, clock} :
         Save(self, TheContent, NoCategory, scope, pinned, expires_at,
              IF scope = "group" THEN {"backend"} ELSE {})
    \/ \E id \in ArgIds, scope \in {"project", "global"} :
         RecordAccess("P", id, scope)
    \/ \E id \in ArgIds, scope \in {"project", "global"} :
         Get("P", id, scope)
    \/ \E id \in ArgIds : GetById("P", id)
    \/ \E scope \in ValidScopes, limit \in {1, 50},
          include_expired \in BOOLEAN :
         List("P", scope, NoCategory, FALSE, limit, include_expired)
    \/ \E scope \in ValidScopes : ListPinned("P", scope)
    \/ \E include_expired \in BOOLEAN :
         ListByGroup("P", "backend", FALSE, NoCategory, 50, include_expired)
    \/ \E scope \in ValidScopes : SearchKeyword("P", TheContent, scope, 10)
    \/ SearchWithGroups("P", TheContent, TRUE, TRUE, {"backend"}, 10)
    \/ \E pinned_only \in BOOLEAN, limit \in {1, 50},
          include_expired \in BOOLEAN :
         ListWithDescendants("P", NoCategory, pinned_only, limit,
                             include_expired)
    \/ \E limit \in {1, 10} : SearchWithDescendants("P", TheContent, limit)
    \/ \E scope \in ValidScopes : GetMostAccessed("P", scope, 10)
    \/ \E scope \in ValidScopes : GetPinCandidates("P", scope, 1, 10)

SpecExpiry == Init /\ [][NextExpiry]_vars

\* Memories saved from the command line with semantic search enabled, and
\* deleted by id from the command line, over HTTP and by pruning.
NextVec ==
    \/ \E scope \in ValidScopes, pinned \in BOOLEAN :
         CliSave("P", TheContent, scope, pinned,
                 IF scope = "group" THEN {"backend"} ELSE {}, TRUE)
    \/ \E id \in ArgIds : CliForget("P", id, TRUE)
    \/ \E id \in ArgIds : WebDelete("P", id)
    \/ \E scope \in ValidScopes \cup {NoScope}, include_pinned \in BOOLEAN :
         CliPrune("P", scope, NoDays, TRUE, include_pinned, TRUE)

SpecVec == Init /\ [][NextVec]_vars

\* A parent project P and its descendant D, whose file was written by an
\* earlier release and never opened since. Stores bound to either project
\* write; the store bound to P reads across its descendants.
InitFrame ==
    /\ \E shared_groups \in { {}, {"backend"} } :
         sql = [f \in Files |->
                  IF f = "D"
                  THEN {LegacyRow("project", "D", shared_groups)}
                  ELSE {}]
    /\ legacy = [f \in Files |-> f = "D"]
    /\ vec = [f \in Files |-> {}]
    /\ last = [op |-> "init", self |-> "P", arg |-> [id |-> -1],
               ret |-> NoMemory]
    /\ sessions = NoSessions
    /\ job = NoJob
    /\ events = NoEvents
    /\ pending = NoPending
    /\ managers = NoManagers
    /\ clock = 0

NextFrame ==
    \/ \E self \in Projects, scope \in {"project", "global"} :
         Save(self, TheContent, NoCategory, scope, FALSE, NoTime, {})
    \/ \E id \in ArgIds, scope \in {"project", "global"} :
         Update("P", id, scope, [pinned |-> TRUE])
    \/ \E id \in ArgIds, scope \in {"project", "global"} :
         Pin("P", id, scope)
    \/ \E id \in ArgIds, scope \in {"project", "global"} :
         Delete("P", id, scope)
    \/ \E id \in ArgIds : DeleteById("P", id)
    \/ \E include_expired \in BOOLEAN :
         ListWithDescendants("P", NoCategory, FALSE, 50, include_expired)
    \/ SearchWithDescendants("P", TheContent, 10)
    \/ List("P", "project", NoCategory, FALSE, 50, FALSE)
    \/ SearchKeyword("P", TheContent, "project", 10)

SpecFrame == InitFrame /\ [][NextFrame]_vars

\* Memories of a few contents in P, searched by keyword with empty, blank,
\* one-term and two-term queries.
Contents == { <<"a", " ", "b">>, <<"b", " ", "a">>, <<"A", "b">>, <<"b">> }
Queries ==
    { << >>, <<" ">>, <<"a">>, <<"a", " ", "b">>, <<"B", " ", "a">>, <<"_">> }

NextSearch ==
    \/ \E content \in Contents, expires_at \in {NoTime, clock} :
         Save("P", content, NoCategory, "project", FALSE, expires_at, {})
    \/ \E query \in Queries, limit \in {1, 10} :
         SearchKeyword("P", query, "project", limit)

SpecSearch == Init /\ [][NextSearch]_vars

\* Group and global memories saved with or without an expiry, moved between
\* the two scopes, and listed by scope and by group name.
Limits == {1, 50}

NextGroup ==
    \/ \E scope \in {"group", "global"}, groups \in { {}, {"backend"} },
          expires_at \in {NoTime, clock} :
         Save("P", TheContent, NoCategory, scope, FALSE, expires_at, groups)
    \/ \E id \in ArgIds, scope \in {"group", "global"},
          groups \in { {}, {"web"} } :
         SetScope("P", id, scope, groups)
    \/ \E limit \in Limits :
         List("P", "global", NoCategory, FALSE, limit, FALSE)
    \/ \E group_name \in GroupNames \cup {"all"}, limit \in Limits :
         ListByGroup("P", group_name, FALSE, NoCategory, limit, FALSE)

SpecGroup == Init /\ [][NextGroup]_vars

\* ----------------------------------------------------------------- claims

\* C1: every row of a project file has scope = project and every row of the
\* global file has scope group or global, after any sequence of store calls
\* and after the migration run when a file is opened.
C1_ScopeMatchesFile ==
    \A f \in Files : \A r \in sql[f] :
        IF f = GlobalFile THEN r.scope \in {"group", "global"}
        ELSE r.scope = "project"

\* C2: every stored memory with scope = group has at least one group, and
\* every stored memory with scope project or global has no groups, whatever
\* groups argument the calls were given.
C2_GroupsMatchScope ==
    \A f \in Files : \A r \in sql[f] :
        IF r.scope = "group" THEN r.groups # {} ELSE r.groups = {}

\* C3: set_scope returns a memory with the id it was given; afterwards
\* get_by_id(id) returns that memory, the file of the new scope holds it and
\* no other file does (moved across files, or updated in place).
C3_SetScopeKeepsId ==
    (last.op = "set_scope" /\ IsMemory(last.ret)) =>
        /\ last.ret.id = last.arg.id
        /\ StoreGetById(World, last.self, last.arg.id).ret = last.ret
        /\ \A f \in Files :
             (\E r \in sql[f] : r.id = last.arg.id)
                <=> f = DbFile(last.self, last.arg.scope)

ReadOps ==
    {"get", "get_by_id", "list", "list_pinned", "list_by_group",
     "search_keyword", "search_with_groups", "list_with_descendants",
     "search_with_descendants", "get_most_accessed", "get_pin_candidates"}

\* The memories the last call returned.
Returned ==
    IF last.op \in {"get", "get_by_id"}
    THEN (IF IsMemory(last.ret) THEN {last.ret} ELSE {})
    ELSE SeqRange(last.ret.memories)

\* C4: no read operation returns a memory whose expires_at is earlier than
\* the time of the call, unless it was called with include_expired = true.
C4_NoExpiredRead ==
    (last.op \in ReadOps /\ ~last.arg.include_expired) =>
        \A m \in Returned : ~is_expired(World, m.expires_at)

NoDuplicateIds(s) == \A i, j \in 1..Len(s) : s[i].id = s[j].id => i = j
NewestFirst(s) ==
    \A i, j \in 1..Len(s) : i < j => s[i].created_at >= s[j].created_at

\* The current project of a store and its descendant projects.
Family(self) == {self} \cup DescendantDbPaths(self)
TotalRows(self) == Cardinality(UNION { sql[p] : p \in Family(self) })

\* C7: with a limit of at least the number of stored rows,
\* list_with_descendants returns exactly the ids that list(scope=project)
\* with the same category, pinned_only and include_expired returns on the
\* current project and on each descendant, and search_with_descendants
\* exactly the ids search_keyword(query, scope=project) returns on them,
\* each id once and newest first.
C7_DescendantsUnion ==
    /\ (last.op = "list_with_descendants"
          /\ last.arg.limit >= TotalRows(last.self)) =>
         /\ Ids(last.ret.memories) =
              UNION { Ids(StoreList(World, p, "project", last.arg.category,
                                    last.arg.pinned_only, last.arg.limit,
                                    last.arg.include_expired).ret) :
                      p \in Family(last.self) }
         /\ NoDuplicateIds(last.ret.memories)
         /\ NewestFirst(last.ret.memories)
    /\ (last.op = "search_with_descendants"
          /\ last.arg.limit >= TotalRows(last.self)) =>
         /\ Ids(last.ret.memories) =
              UNION { Ids(StoreSearchKeyword(World, p, last.arg.query,
                                             "project", last.arg.limit).ret) :
                      p \in Family(last.self) }
         /\ NoDuplicateIds(last.ret.memories)
         /\ NewestFirst(last.ret.memories)

\* The ids the last call deleted by id.
DeletedIds ==
    IF last.op \in {"forget", "web_delete"}
    THEN (IF last.ret.deleted THEN {last.arg.id} ELSE {})
    ELSE IF last.op = "prune" THEN last.arg.ids
    ELSE {}

\* C5: after forget <id>, DELETE /api/memories/<id> or prune has deleted a
\* memory by id, get_by_id(id) returns None and neither the project nor the
\* global vector table holds a record with that memory_id.
C5_DeletedEverywhere ==
    \A id \in DeletedIds :
        /\ StoreGetById(World, last.self, id).ret = NoMemory
        /\ \A f \in {last.self, GlobalFile} :
             \A v \in vec[f] : v.memory_id # id

FrameOps ==
    {"save", "update", "pin", "delete", "delete_by_id",
     "list_with_descendants", "search_with_descendants"}

\* C6: list_with_descendants and search_with_descendants leave the rows and
\* the schema of every descendant database as they were; save, update, pin
\* and delete on a store change no database but the store's own project
\* file and the global file; and list(scope=project) and
\* search_keyword(scope=project) return no memory of a descendant database.
C6_DescendantsUntouched ==
    /\ [][ last'.op \in FrameOps =>
             \A f \in Files \ {last'.self, GlobalFile} :
                 sql'[f] = sql[f] /\ legacy'[f] = legacy[f] ]_vars
    /\ []( (last.op \in {"list", "search_keyword"}
              /\ last.arg.scope = "project") =>
            \A m \in Returned : \A d \in DescendantDbPaths(last.self) :
                m \notin sql[d] )

\* P holds a memory of its own and has just listed across its descendants,
\* getting a memory of D, whose file is still in the shape it was written in.
C6_Witness ==
    /\ last.op = "list_with_descendants"
    /\ last.self = "P"
    /\ sql["P"] # {}
    /\ legacy["D"]
    /\ \E m \in Returned : m \in sql["D"]

\* The whitespace-separated terms of a query (query.split()).
RECURSIVE Split(_, _)
Split(text, term) ==
    LET done == IF term = << >> THEN {} ELSE {term}
    IN  IF text = << >> THEN done
        ELSE IF Head(text) = " " THEN done \cup Split(Tail(text), << >>)
        ELSE Split(Tail(text), Append(term, Head(text)))

Terms(query) == Split(query, << >>)

HasAllTerms(m, query) ==
    \A t \in Terms(query) : Contains(Lower(m.content), Lower(t))

\* C8: search_keyword with a query of several whitespace-separated terms
\* returns only memories whose content contains every term, case-
\* insensitively, and returns every non-expired such memory of the file
\* searched, up to limit, whatever the order and adjacency of the terms.
C8_AllTermsMatch ==
    (last.op = "search_keyword" /\ Cardinality(Terms(last.arg.query)) >= 2) =>
        LET matching ==
                { r \in sql[DbFile(last.self, last.arg.scope)] :
                    /\ ~is_expired(World, r.expires_at)
                    /\ HasAllTerms(r, last.arg.query) }
        IN  /\ \A m \in Returned : HasAllTerms(m, last.arg.query)
            /\ IF Cardinality(matching) <= last.arg.limit
               THEN Returned = matching
               ELSE /\ Returned \subseteq matching
                    /\ Len(last.ret.memories) = last.arg.limit

\* C9: search_keyword with an empty or whitespace-only query returns the
\* empty list.
C9_EmptyQuery ==
    (last.op = "search_keyword" /\ Terms(last.arg.query) = {}) =>
        last.ret.memories = << >>

\* What list(scope=global) and list_by_group(g) would return now.
ListedGlobal(limit) ==
    SeqRange(StoreList(World, "P", "global", NoCategory, FALSE, limit,
                       FALSE).ret)
ListedByGroup(g, limit) ==
    SeqRange(StoreListByGroup(World, "P", g, FALSE, NoCategory, limit,
                              FALSE).ret)

\* r has not expired and is one of the `limit` newest rows of its scope.
Listable(r, limit) ==
    /\ ~is_expired(World, r.expires_at)
    /\ Cardinality({ x \in sql[GlobalFile] :
                       x.scope = r.scope /\ x.created_at > r.created_at })
         < limit

\* C10 as stated: list(scope=global) returns only global memories;
\* list_by_group(name) returns only group memories whose groups contain
\* name; a group memory with g among its groups is returned by
\* list_by_group(g) and not by list(scope=global); after set_scope(id,
\* global) the memory has no groups, list(scope=global) returns it and
\* list_by_group(g) does not.
C10_ScopeListing ==
    /\ (last.op = "list" /\ last.arg.scope = "global") =>
         \A m \in Returned : m.scope = "global"
    /\ last.op = "list_by_group" =>
         \A m \in Returned :
             m.scope = "group" /\ last.arg.group_name \in m.groups
    /\ \A r \in sql[GlobalFile] : \A g \in GroupNames :
         (r.scope = "group" /\ g \in r.groups) =>
             r \in ListedByGroup(g, 50) /\ r \notin ListedGlobal(50)
    /\ (last.op = "set_scope" /\ last.arg.scope = "global"
          /\ IsMemory(last.ret)) =>
         /\ last.ret.groups = {}
         /\ last.ret \in ListedGlobal(50)
         /\ \A g \in GroupNames : last.ret \notin ListedByGroup(g, 50)

\* C10, amended: list(scope=global) returns only global memories;
\* list_by_group(name), for a name other than "all" in any letter case,
\* returns only group memories whose groups contain name; a group memory
\* with g among its groups is never returned by list(scope=global) and is
\* returned by list_by_group(g) when it has not expired and is among the
\* `limit` newest group memories; after set_scope(id, global) the memory has
\* no groups, list_by_group(g) does not return it, and list(scope=global)
\* returns it when it has not expired and is among the `limit` newest global
\* memories.
C10_ScopeListingAmended ==
    /\ (last.op = "list" /\ last.arg.scope = "global") =>
         \A m \in Returned : m.scope = "global"
    /\ (last.op = "list_by_group"
          /\ LowerName(last.arg.group_name) # "all") =>
         \A m \in Returned :
             m.scope = "group" /\ last.arg.group_name \in m.groups
    /\ \A r \in sql[GlobalFile] : \A g \in GroupNames : \A limit \in Limits :
         (r.scope = "group" /\ g \in r.groups) =>
             /\ r \notin ListedGlobal(limit)
             /\ Listable(r, limit) => r \in ListedByGroup(g, limit)
    /\ (last.op = "set_scope" /\ last.arg.scope = "global"
          /\ IsMemory(last.ret)) =>
         /\ last.ret.groups = {}
         /\ \A g \in GroupNames : \A limit \in Limits :
              /\ last.ret \notin ListedByGroup(g, limit)
              /\ Listable(last.ret, limit) =>
                    last.ret \in ListedGlobal(limit)

\* A group memory has just been moved to the global scope in place, and
\* list(scope=global) returns it.
C10_Witness ==
    /\ last.op = "set_scope"
    /\ last.arg.old = "group"
    /\ last.arg.scope = "global"
    /\ IsMemory(last.ret)
    /\ last.ret.id = last.arg.id
    /\ last.ret \in ListedGlobal(50)

\* ------------------------------------------------- visibility of groups

\* Default of config.relevance.search_limit.
SearchLimit == 5

\* RelevanceEngine.get_relevant_memories, the keyword fallback that ignores
\* what the semantic search returned.
KeywordFallbackNoDedup(w, self, query, limit, semantic_results, include_global) ==
    LET remaining == limit - Len(semantic_results)
        p == StoreSearchKeyword(w, self, query, "project", remaining)
        g == StoreSearchKeyword(p.w, self, query, "global",
                                remaining - Len(p.ret))
    IN  IF Len(semantic_results) >= limit THEN Result(w, << >>)
        ELSE IF include_global /\ Len(p.ret) < remaining
        THEN Result(g.w, p.ret \o g.ret)
        ELSE Result(p.w, p.ret)

\* RelevanceEngine.get_relevant_memories, the keyword fallback:
\* semantic_results is what the semantic search returned (nothing when the
\* vector store is off).
KeywordFallback(w, self, query, limit, semantic_results, include_global) ==
    LET semantic_ids == { semantic_results[i].memory_id :
                            i \in 1..Len(semantic_results) }
        remaining == limit - Len(semantic_results)
        NotSemantic(m) == m.id \notin semantic_ids
        p == StoreSearchKeyword(w, self, query, "project", remaining)
        keyword_results == SelectSeq(p.ret, NotSemantic)
        g == StoreSearchKeyword(p.w, self, query, "global",
                                remaining - Len(keyword_results))
        Fresh(m) == /\ m.id \notin semantic_ids
                    /\ m.id \notin Ids(keyword_results)
    IN  IF Len(semantic_results) >= limit THEN Result(w, << >>)
        ELSE IF include_global /\ Len(keyword_results) < remaining
        THEN Result(g.w, keyword_results \o SelectSeq(g.ret, Fresh))
        ELSE Result(p.w, keyword_results)

GetRelevantMemories(self, query, limit, include_global) ==
    Commit(Listed(KeywordFallback(World, self, query, limit, << >>,
                                  include_global)),
           "get_relevant_memories", self,
           [query |-> query, limit |-> limit,
            include_global |-> include_global])

IncludeSets == { {}, {"backend"}, {"ALL"} }

NextVisible ==
    \/ \E scope \in ValidScopes, g \in GroupNames :
         Save("P", TheContent, NoCategory, scope, FALSE, NoTime,
              IF scope = "group" THEN {g} ELSE {})
    \/ \E include_project \in BOOLEAN, include_global \in BOOLEAN,
          include_groups \in IncludeSets, limit \in {1, SearchLimit} :
         SearchWithGroups("P", TheContent, include_project, include_global,
                          include_groups, limit)
    \/ \E include_global \in BOOLEAN, limit \in {1, SearchLimit} :
         GetRelevantMemories("P", TheContent, limit, include_global)

SpecVisible == Init /\ [][NextVisible]_vars

\* The group memories the caller of the last search did not ask for.
NotIncluded(include_groups) ==
    { r \in sql[GlobalFile] :
        /\ r.scope = "group"
        /\ "all" \notin { LowerName(x) : x \in include_groups }
        /\ r.groups \cap include_groups = {} }

\* The world without the group memories that were not asked for.
WorldWithout(include_groups) ==
    [World EXCEPT !.sql[GlobalFile] = @ \ NotIncluded(include_groups)]

\* C11: search_with_groups returns a group memory only when include_groups
\* holds "all" or one of its groups; with include_groups absent neither it
\* nor the keyword fallback of get_relevant_memories returns a group memory;
\* and the result is the one the same call gives when the group memories
\* that were not asked for do not exist.
C11_GroupsOptIn ==
    /\ last.op = "search_with_groups" =>
         /\ \A m \in Returned :
              m.scope = "group" => m \notin NotIncluded(last.arg.include_groups)
         /\ last.ret.memories =
              StoreSearchWithGroups(WorldWithout(last.arg.include_groups),
                                    last.self, last.arg.query,
                                    last.arg.include_project,
                                    last.arg.include_global,
                                    last.arg.include_groups,
                                    last.arg.limit).ret
    /\ last.op = "get_relevant_memories" =>
         /\ \A m \in Returned : m.scope # "group"
         /\ last.ret.memories =
              KeywordFallback(WorldWithout({}), last.self, last.arg.query,
                              last.arg.limit, << >>,
                              last.arg.include_global).ret

\* ------------------------------------------------------------ compaction

\* A metadata dict is the set of its <<key, value>> pairs.
MetaGet(metadata, key, default) ==
    IF \E p \in metadata : p[1] = key
    THEN (CHOOSE p \in metadata : p[1] = key)[2]
    ELSE default

CompactedFrom(row) == MetaGet(row.metadata, "compacted_from", {})
OriginalCount(row) == MetaGet(row.metadata, "original_count", 0)

AllRows(files) == UNION { files[f] : f \in Files }
AllIds(files) == { r.id : r \in AllRows(files) }
AllVecIds(files) == { v.memory_id : v \in AllRows(files) }
MemoryIds(memories) == { m.id : m \in memories }

\* Any category of the cluster, frequent or not.
AnyCategory(memories) == { m.category : m \in memories }

\* max(set(categories), key=categories.count): the iteration order of a set
\* of strings is not fixed, so any category of the highest count may come out.
MostFrequent(memories) ==
    LET Count(c) == Cardinality({ m \in memories : m.category = c })
    IN  { c \in { m.category : m \in memories } :
            \A d \in { m.category : m \in memories } : Count(d) <= Count(c) }

\* CompactionEngine._get_candidate_memories with no filter.
CandidateMemories(w, self) ==
    LET p == StoreList(w, self, "project", NoCategory, FALSE, FindLimit, FALSE)
        gr == StoreList(p.w, self, "group", NoCategory, FALSE, FindLimit, FALSE)
        gl == StoreList(gr.w, self, "global", NoCategory, FALSE, FindLimit, FALSE)
    IN  Result(gl.w, SeqRange(p.ret) \cup SeqRange(gr.ret) \cup SeqRange(gl.ret))

\* CompactionEngine._cluster_dbscan: the labels depend on the embeddings, so
\* any list of disjoint clusters of at least min_cluster_size memories may
\* come out.
RECURSIVE ClusterLists(_, _)
ClusterLists(memories, min_cluster_size) ==
    { << >> } \cup
    UNION { { <<c>> \o rest : rest \in ClusterLists(memories \ c, min_cluster_size) } :
            c \in { x \in SUBSET memories : Cardinality(x) >= min_cluster_size /\ x # {} } }

\* CompactionEngine.compact_cluster, the store.save call.
CompactSave(w, self, cluster, summary, category, target_scope, target_groups) ==
    StoreSave(w, self, summary, category, target_scope, FALSE,
              "auto_compaction",
              { <<"compacted_from", MemoryIds(cluster)>>,
                <<"compacted_at", w.clock>>,
                <<"original_count", Cardinality(cluster)>> },
              NoTime,
              IF target_scope = "group" THEN target_groups ELSE {})

\* CompactionEngine.compact_cluster, the vector_store.add call: a failure is
\* swallowed.
CompactVecAdd(w, self, new_memory, summary, category, target_scope, target_groups, vok) ==
    IF vok
    THEN VecAdd(w, self, new_memory.id, summary, category, target_scope,
                IF target_scope = "group" THEN target_groups ELSE {})
    ELSE w

\* CompactionEngine.compact_cluster, one round of the deletion loop.
CompactDelete(w, self, memory, vok) ==
    LET d == StoreDeleteById(w, self, memory.id)
    IN  IF vok THEN VecDelete(d.w, self, memory.id, memory.scope) ELSE d.w

\* The order of the steps of compact_cluster, deletion first.
StepsDeleteFirst == <<"delete", "save", "vec_add">>

\* The order of the steps of compact_cluster.
Steps == <<"save", "vec_add", "delete">>

StepAfter(pc) ==
    LET i == CHOOSE n \in 1..Len(Steps) : Steps[n] = pc
    IN  IF i = Len(Steps) THEN "returned" ELSE Steps[i + 1]

\* cli compact, the except branch left without aborting.
SkipOnError(j) ==
    [j EXCEPT !.failed = j.k,
              !.pc = IF j.k < Len(j.clusters) THEN "summarize" ELSE "done",
              !.k = IF j.k < Len(j.clusters) THEN j.k + 1 ELSE j.k]

\* cli compact, the except branch: sys.exit(1).
OnError(j) == [j EXCEPT !.failed = j.k, !.pc = "aborted"]

TheSummary == <<"s">>

\* A step of the compaction run of the store bound to `self`.
CommitJob(w, self, j) ==
    /\ w.clock <= MaxClock
    /\ sql' = w.sql
    /\ legacy' = w.legacy
    /\ vec' = w.vec
    /\ clock' = w.clock
    /\ last' = [op |-> "compact", self |-> self, arg |-> [id |-> -1],
                ret |-> NoMemory]
    /\ job' = j
    /\ UNCHANGED <<sessions, events, pending, managers>>

\* cli compact --yes up to the loop over the clusters.
CompactStart(self, min_cluster_size, target_scope, target_groups) ==
    /\ job.pc = "idle"
    /\ LET c == CandidateMemories(World, self)
       IN  \E clusters \in ClusterLists(c.ret, min_cluster_size) \ { << >> } :
             CommitJob(c.w, self,
                       [NoJob EXCEPT !.pc = "summarize", !.clusters = clusters,
                                     !.k = 1, !.target_scope = target_scope,
                                     !.target_groups = target_groups])

\* engine.generate_summary(cluster): the LLM answers or raises; on an answer
\* compact_cluster is entered.
GenerateSummary(self, ok) ==
    /\ job.pc = "summarize"
    /\ CommitJob(World, self,
                 IF ok
                 THEN [job EXCEPT !.pc = Steps[1],
                                  !.todo = job.clusters[job.k],
                                  !.new_memory = NoMemory,
                                  !.before = sql, !.vec_failed = FALSE,
                                  !.del_failed = FALSE, !.retried = FALSE]
                 ELSE OnError(job))

CompactSaveStep(self) ==
    /\ job.pc = "save"
    /\ \E category \in MostFrequent(job.clusters[job.k]) :
         LET r == CompactSave(World, self, job.clusters[job.k], TheSummary,
                              category, job.target_scope, job.target_groups)
         IN  CommitJob(r.w, self,
                       IF IsMemory(r.ret)
                       THEN [job EXCEPT !.pc = StepAfter("save"),
                                        !.new_memory = r.ret]
                       ELSE OnError(job))

CompactVecAddStep(self, vok) ==
    /\ job.pc = "vec_add"
    /\ CommitJob(CompactVecAdd(World, self, job.new_memory, TheSummary,
                               job.new_memory.category, job.target_scope,
                               job.target_groups, vok),
                 self,
                 [job EXCEPT !.pc = StepAfter("vec_add"),
                             !.vec_failed = ~vok])

CompactDeleteStep(self, vok) ==
    /\ job.pc = "delete"
    /\ IF job.todo = {}
       THEN CommitJob(World, self, [job EXCEPT !.pc = StepAfter("delete")])
       ELSE \E memory \in job.todo :
              CommitJob(CompactDelete(World, self, memory, vok), self,
                        [job EXCEPT !.todo = @ \ {memory},
                                    !.del_failed = @ \/ ~vok])

\* compact_cluster has returned: the loop goes on to the next cluster.
NextCluster(self) ==
    /\ job.pc = "returned"
    /\ CommitJob(World, self,
                 IF job.k < Len(job.clusters)
                 THEN [job EXCEPT !.pc = "summarize", !.k = @ + 1]
                 ELSE [job EXCEPT !.pc = "done"])

\* The process is stopped between two steps.
Kill(self) ==
    /\ job.pc \in {"summarize", "save", "vec_add", "delete", "returned"}
    /\ CommitJob(World, self, [job EXCEPT !.pc = "killed"])

\* compact_cluster is called once more on the cluster it has just compacted.
Retry(self) ==
    /\ job.pc = "returned"
    /\ CommitJob(World, self,
                 [job EXCEPT !.pc = Steps[1], !.todo = job.clusters[job.k],
                             !.before = sql, !.retried = TRUE])

NumOriginals == 3
OriginalId(i) == 100 + i

\* The row that `save` wrote for the i-th original long ago.
Original(i, category, scope) ==
    [id |-> OriginalId(i), content |-> TheContent, category |-> category,
     scope |-> scope, project_path |-> "P", pinned |-> FALSE,
     created_at |-> i - 10, updated_at |-> i - 10, expires_at |-> NoTime,
     source |-> "user_explicit", metadata |-> {}, groups |-> {},
     access_count |-> 0, last_accessed_at |-> NoTime]

\* A store whose memories were saved through the CLI with semantic search
\* on: every memory has its vector record.
InitCompact ==
    /\ \E category \in [1..NumOriginals -> {"factual", "decision"}],
          scope \in [1..NumOriginals -> {"project", "global"}] :
         /\ category[1] = "factual"
         /\ scope[1] = "project"
         /\ scope[NumOriginals] = "global"
         /\ sql = [f \in Files |->
                     { Original(i, category[i], scope[i]) :
                         i \in { n \in 1..NumOriginals :
                                   DbFile("P", scope[n]) = f } }]
         /\ vec = [f \in Files |->
                     { VecRecord(OriginalId(i), TheContent, category[i],
                                 scope[i], {}) :
                         i \in { n \in 1..NumOriginals :
                                   DbFile("P", scope[n]) = f } }]
    /\ legacy = [f \in Files |-> FALSE]
    /\ last = [op |-> "init", self |-> "P", arg |-> [id |-> -1],
               ret |-> NoMemory]
    /\ sessions = NoSessions
    /\ job = NoJob
    /\ events = NoEvents
    /\ pending = NoPending
    /\ managers = NoManagers
    /\ clock = 0

NextCompact ==
    \/ \E min_cluster_size \in {1, 3}, target_scope \in {"project", "group"} :
         CompactStart("P", min_cluster_size, target_scope,
                      IF target_scope = "group" THEN {"backend"} ELSE {})
    \/ \E ok \in BOOLEAN : GenerateSummary("P", ok)
    \/ CompactSaveStep("P")
    \/ \E vok \in BOOLEAN : CompactVecAddStep("P", vok)
    \/ \E vok \in BOOLEAN : CompactDeleteStep("P", vok)
    \/ NextCluster("P")
    \/ Kill("P")

SpecCompact == InitCompact /\ [][NextCompact]_vars

SpecRetry == InitCompact /\ [][NextCompact \/ Retry("P")]_vars

\* The summaries that list one of the ids.
SummariesOf(ids) == { r \in AllRows(sql) : CompactedFrom(r) \cap ids # {} }

\* C12: compact_cluster creates the summary row, mirrors it to the vector
\* store and then deletes the originals, in this order: in every state of a
\* compaction run, also one in which the run was stopped, every original of
\* every cluster still has its row or is listed in the compacted_from of a
\* summary that has its row.
C12_SummaryBeforeDelete ==
    \A j \in 1..Len(job.clusters) : \A m \in job.clusters[j] :
        m.id \in AllIds(sql) \/ SummariesOf({m.id}) # {}

\* The run was stopped when some originals of the cluster were deleted and
\* others not yet.
C12_Witness ==
    /\ job.pc = "killed"
    /\ IsMemory(job.new_memory)
    /\ job.todo # {}
    /\ job.todo # job.clusters[job.k]
    /\ \E m \in job.clusters[job.k] : m.id \notin AllIds(sql)

\* The number of memories of the cluster that have the category.
HowMany(c, category) == Cardinality({ m \in c : m.category = category })

\* What compact_cluster leaves in the SQL files and returns.
CompactedOnce(c, new) ==
    /\ IsMemory(new)
    /\ new \notin AllRows(job.before)
    /\ AllRows(sql) = (AllRows(job.before) \ c) \cup {new}
    /\ new \in sql[DbFile(last.self, job.target_scope)]
    /\ new.scope = job.target_scope
    /\ new.source = "auto_compaction"
    /\ new.pinned = FALSE
    /\ \A m \in c : HowMany(c, m.category) <= HowMany(c, new.category)
    /\ CompactedFrom(new) = MemoryIds(c)
    /\ OriginalCount(new) = Cardinality(c)
    /\ (new.groups # {}) <=> (job.target_scope = "group")
    /\ MemoryIds(c) \cap AllIds(sql) = {}

C14_AbortKeepsRest ==
    job.failed # 0 =>
        /\ job.pc = "aborted"
        /\ \A j \in 1..(job.failed - 1) :
             /\ MemoryIds(job.clusters[j]) \cap AllIds(sql) = {}
             /\ \E r \in AllRows(sql) :
                  CompactedFrom(r) = MemoryIds(job.clusters[j])
        /\ \A j \in job.failed..Len(job.clusters) :
             /\ job.clusters[j] \subseteq AllRows(sql)
             /\ SummariesOf(MemoryIds(job.clusters[j])) = {}
             /\ MemoryIds(job.clusters[j]) \subseteq AllVecIds(vec)

\* The LLM failed for the second of three clusters.
C14_Witness ==
    /\ job.pc = "aborted"
    /\ job.failed = 2
    /\ Len(job.clusters) = 3
    /\ SummariesOf(MemoryIds(job.clusters[1])) # {}

\* C15: compact_cluster called again on a cluster it has already compacted
\* creates no further summary and deletes nothing: the SQL files stay as
\* they were when the second call began.
C15_RetryIdempotent ==
    (job.retried /\ job.pc \in {"save", "vec_add", "delete", "returned"}) =>
        sql = job.before

\* ---------------------------------------------------------------- pruning

\* The memories of a list of PruneCandidates.
MemoriesOf(candidates) ==
    [i \in 1..Len(candidates) |-> candidates[i].memory]

FindCandidatesCall(self, scope, older_than_days, never_accessed, category, exclude_pinned) ==
    LET c == FindCandidates(World, self, scope, older_than_days,
                            never_accessed, category, exclude_pinned)
    IN  Commit(Listed(Result(c.w, MemoriesOf(c.ret))), "find_candidates",
               self,
               [scope |-> scope, older_than_days |-> older_than_days,
                never_accessed |-> never_accessed, category |-> category,
                exclude_pinned |-> exclude_pinned])

\* The memory is one that find_candidates is asked about: of a requested
\* scope and of the requested category.
Requested(r, scope, category) ==
    /\ scope # NoScope => r.scope = scope
    /\ category # NoCategory => r.category = category

\* The criteria of find_candidates hold for the memory now.
MeetsCriteria(r, older_than_days, never_accessed, exclude_pinned) ==
    /\ ~(exclude_pinned /\ r.pinned)
    /\ older_than_days # NoDays => clock - r.created_at >= older_than_days
    /\ never_accessed => r.access_count = 0

\* store.list hands the memory out: it has not expired and is among the
\* FindLimit newest memories of its scope and of the category asked for.
Handed(r, self, category) ==
    /\ ~is_expired(World, r.expires_at)
    /\ Cardinality({ x \in sql[DbFile(self, r.scope)] :
                       /\ x.scope = r.scope
                       /\ category # NoCategory => x.category = category
                       /\ x.created_at > r.created_at }) < FindLimit

\* The rows the store bound to `self` reaches.
RowsOf(self) == sql[self] \cup sql[GlobalFile]

OldDays == 2

NextFind ==
    \/ \E pinned \in BOOLEAN :
         Save("P", TheContent, NoCategory, "project", pinned, NoTime, {})
    \/ Save("P", TheContent, "decision", "global", FALSE, NoTime, {})
    \/ Save("P", TheContent, NoCategory, "project", FALSE, clock, {})
    \/ \E id \in ArgIds : RecordAccess("P", id, "project")
    \/ \E criteria \in {<<NoDays, TRUE>>, <<OldDays, FALSE>>, <<OldDays, TRUE>>},
          exclude_pinned \in BOOLEAN,
          asked \in {<<NoScope, NoCategory>>, <<"global", "decision">>} :
         FindCandidatesCall("P", asked[1], criteria[1], criteria[2],
                            asked[2], exclude_pinned)

SpecFind == Init /\ [][NextFind]_vars

\* A list of candidates that an earlier find_candidates gave: the memories
\* with these ids, in the order of their ids; a memory that has been deleted
\* since is still on the list.
RECURSIVE CandidateList(_, _)
CandidateList(rows, ids) ==
    IF ids = {} THEN << >>
    ELSE LET id == CHOOSE x \in ids : \A y \in ids : x <= y
             scope == IF \E r \in rows : r.id = id
                      THEN RowById(rows, id).scope ELSE "project"
         IN  <<[memory |-> [id |-> id, scope |-> scope]]>>
               \o CandidateList(rows, ids \ {id})

CandidateIds(candidates) ==
    { candidates[i].memory.id : i \in 1..Len(candidates) }

\* PruningEngine.prune(candidates); `first` is what the call before returned
\* when this call repeats it with the same list.
PruneCall(self, candidates, vok, again, first) ==
    LET r == EnginePrune(World, self, candidates, vok)
    IN  Commit(Result(r.w, [pruned |-> r.ret]), "engine_prune", self,
               [candidates |-> candidates, vok |-> vok, again |-> again,
                first |-> first])

Prune(self, ids, vok) ==
    PruneCall(self, CandidateList(RowsOf(self), ids), vok, FALSE, 0)

PruneAgain(self, vok) ==
    /\ last.op = "engine_prune"
    /\ ~last.arg.again
    /\ PruneCall(self, last.arg.candidates, vok, TRUE, last.ret.pruned)

NextPrune ==
    \/ \E scope \in ValidScopes, pinned \in BOOLEAN :
         CliSave("P", TheContent, scope, pinned,
                 IF scope = "group" THEN {"backend"} ELSE {}, TRUE)
    \/ \E ids \in SUBSET ArgIds, vok \in BOOLEAN : Prune("P", ids, vok)
    \/ \E vok \in BOOLEAN : PruneAgain("P", vok)

SpecPrune == Init /\ [][NextPrune]_vars

\* What a prune step does to the SQL files and what it returns.
PrunedRows(ids) ==
    /\ \A f \in Files : sql'[f] = { r \in sql[f] : r.id \notin ids }
    /\ last'.ret.pruned = Cardinality(ids \cap AllIds(sql))
    /\ last'.arg.again => /\ last'.ret.pruned = 0
                          /\ sql' = sql
                          /\ vec' = vec

MaxSessions == 2

\* SessionManager.get_session
GetSession(file, session_id) ==
    IF \E i \in 1..Len(file) : file[i].id = session_id
    THEN file[CHOOSE i \in 1..Len(file) : file[i].id = session_id]
    ELSE [id |-> NoSession]

\* The first 100 sessions are kept.
SessionCap == 100

\* The id of the session started last (the file is newest first).
NewestId(file) == IF file = << >> THEN NoSession ELSE file[1].id

\* SessionManager.start_session that appends the new record.
ManagerStartSessionAppend(s, now) ==
    LET id == 1 + NewestId(s.file)
        session == [id |-> id, started_at |-> now, ended_at |-> NoTime,
                    summary_count |-> 0]
        all == s.file \o <<session>>
    IN  [file |-> SubSeq(all, 1, IF Len(all) < SessionCap THEN Len(all)
                                 ELSE SessionCap),
         current |-> id]

\* SessionManager.start_session: ids are fresh, here one more than the id
\* of the session started before.
ManagerStartSession(s, now) ==
    LET id == 1 + NewestId(s.file)
        session == [id |-> id, started_at |-> now, ended_at |-> NoTime,
                    summary_count |-> 0]
        all == <<session>> \o s.file
    IN  [file |-> SubSeq(all, 1, IF Len(all) < SessionCap THEN Len(all)
                                 ELSE SessionCap),
         current |-> id]

\* SessionManager.add_summary: `vector` is "none" when the manager has no
\* enabled vector store, "ok" when vector_store.add goes through and "fail"
\* when it raises. The result holds the world, the sessions and what the
\* call returned.
ManagerAddSummary(w, s, self, content, session_id, vector) ==
    LET target_id == IF session_id # NoSession THEN session_id ELSE s.current
        target_session == GetSession(s.file, target_id)
        memory_metadata == IF target_session.id # NoSession
                           THEN { <<"session_id", target_session.id>> }
                           ELSE {}
        r == StoreSave(w, self, content, "session_summary", "project", FALSE,
                       "auto_session", memory_metadata, NoTime, {})
        memory == r.ret
        counted == [s EXCEPT !.file =
                      [i \in 1..Len(s.file) |->
                         IF s.file[i].id = target_session.id
                         THEN [s.file[i] EXCEPT !.summary_count = @ + 1]
                         ELSE s.file[i]]]
    IN  IF vector = "fail"
        THEN [w |-> r.w, s |-> s, ret |-> Raised]
        ELSE [w |-> IF vector = "ok"
                    THEN VecAdd(r.w, self, memory.id, content,
                                "session_summary", "project", {})
                    ELSE r.w,
              s |-> counted, ret |-> memory]

\* A call on the SessionManager of the store bound to `self`.
CommitSession(r, op, self, arg) ==
    /\ r.w.clock <= MaxClock
    /\ sql' = r.w.sql
    /\ legacy' = r.w.legacy
    /\ vec' = r.w.vec
    /\ clock' = r.w.clock
    /\ last' = [op |-> op, self |-> self, arg |-> arg, ret |-> r.ret]
    /\ sessions' = r.s
    /\ UNCHANGED <<job, events, pending, managers>>

\* start_session while fewer than `most` sessions were ever started.
StartUpTo(self, most) ==
    /\ NewestId(sessions.file) < most
    /\ CommitSession([w |-> World, s |-> ManagerStartSession(sessions, clock),
                      ret |-> NoMemory],
                     "start_session", self, [id |-> -1])

StartSession(self) == StartUpTo(self, MaxSessions)

\* The ids of the sessions in the file.
SessionIds == { sessions.file[i].id : i \in 1..Len(sessions.file) }

AddSummary(self, content, session_id, vector) ==
    LET target_id == IF session_id # NoSession THEN session_id
                     ELSE sessions.current
    IN  CommitSession(ManagerAddSummary(World, sessions, self, content,
                                        session_id, vector),
                      "add_summary", self,
                      [target_id |-> target_id, vector |-> vector,
                       count |-> IF target_id \in SessionIds
                                 THEN GetSession(sessions.file,
                                                 target_id).summary_count
                                 ELSE 0])

NextMirror ==
    \/ \E scope \in ValidScopes, vok \in BOOLEAN :
         CliSave("P", TheContent, scope, FALSE,
                 IF scope = "group" THEN {"backend"} ELSE {}, vok)
    \/ StartSession("P")
    \/ \E session_id \in SessionIds \cup {NoSession},
          vector \in {"none", "ok", "fail"} :
         AddSummary("P", TheContent, session_id, vector)

SpecMirror == Init /\ [][NextMirror]_vars

\* C18: in the write paths that mirror a memory to the vector store (cli
\* save, add_summary, compact_cluster) the SQL row is written before the
\* vector record and a failure of the vector write does not leave the call:
\* the saved memory is returned, its row stays, add_summary still counts the
\* summary for its session and compact_cluster still deletes the originals.
C18_VectorFailureContained ==
    /\ AllVecIds(vec) \cap { m.id : m \in { job.new_memory, last.ret } }
         \subseteq AllIds(sql)
    /\ last.op = "cli_save" =>
         /\ IsMemory(last.ret)
         /\ last.ret \in AllRows(sql)
    /\ last.op = "add_summary" =>
         /\ IsMemory(last.ret)
         /\ last.ret \in sql[last.self]
         /\ last.arg.target_id \in SessionIds =>
              GetSession(sessions.file, last.arg.target_id).summary_count
                = last.arg.count + 1
    /\ (job.vec_failed /\ job.pc \in {"delete", "returned"}) =>
         /\ job.new_memory \in AllRows(sql)
         /\ job.pc = "returned" =>
              MemoryIds(job.clusters[job.k]) \cap AllIds(sql) = {}

\* -------------------------------------------------------- access tracking

\* The lists of at most two ids, an id listed twice included.
IdLists ==
    { << >> } \cup { p \in ArgIds \X ArgIds : p[1] <= p[2] }

NextAccess ==
    \/ Save("P", TheContent, NoCategory, "project", FALSE, NoTime, {})
    \/ \E id \in ArgIds, scope \in {"project", "global"} :
         RecordAccess("P", id, scope)
    \/ \E id \in ArgIds : RecordAccess(NoProject, id, "project")
    \/ \E ids \in IdLists : RecordAccessBatch("P", ids, "project")
    \/ \E ids \in IdLists : RecordAccessBatch(NoProject, ids, "project")
    \/ \E id \in ArgIds : SetScope("P", id, "global", {})
    \/ \E id \in ArgIds : DeleteById("P", id)

SpecAccess == Init /\ [][NextAccess]_vars

AccessOps == {"record_access", "record_access_batch"}

\* The ids the call lists.
Listed_ids(call) ==
    IF call.op = "record_access" THEN <<call.arg.id>> ELSE call.arg.ids

\* C19: record_access and record_access_batch never raise, whatever the id
\* and the scope, also for scope = project on a store that has no project
\* path; and when the call can record nothing the store is left as it was.
C19_AccessNeverRaises ==
    [][last'.op \in AccessOps =>
         /\ last'.ret = NoMemory
         /\ (\/ DbFile(last'.self, last'.arg.scope) \notin Files
             \/ SeqRange(Listed_ids(last')) \cap AllIds(sql) = {}) =>
                sql' = sql]_vars

\* How often the id is on the list.
Occurrences(ids, id) == Cardinality({ i \in 1..Len(ids) : ids[i] = id })

\* The row of the file as the call leaves it when it has counted n accesses.
Accessed(r, n) ==
    IF n = 0 THEN r
    ELSE [r EXCEPT !.access_count = @ + n, !.last_accessed_at = clock]

\* No row's access_count goes down and no last_accessed_at goes back.
AccessMonotone ==
    \A r \in AllRows(sql) : \A q \in AllRows(sql') :
        q.id = r.id =>
            /\ q.access_count >= r.access_count
            /\ r.last_accessed_at # NoTime =>
                 q.last_accessed_at >= r.last_accessed_at

\* C20: record_access on an existing memory adds exactly 1 to access_count
\* and sets last_accessed_at; record_access_batch does so for every listed id
\* and leaves the other memories as they were; no store operation lowers the
\* access_count of a memory or moves its last_accessed_at back.
C20_AccessCounted ==
    [][/\ (last'.op \in AccessOps /\ last'.ret = NoMemory) =>
            LET f == DbFile(last'.self, last'.arg.scope)
                ids == SeqRange(Listed_ids(last'))
            IN  IF f \notin Files THEN sql' = sql
                ELSE /\ sql'[f] =
                          { Accessed(r, IF r.id \in ids THEN 1 ELSE 0) :
                              r \in sql[f] }
                     /\ \A g \in Files \ {f} : sql'[g] = sql[g]
       /\ AccessMonotone]_vars

\* C20 as the code has it: the batch runs one UPDATE per list element, so an
\* id listed k times gets k added to its access_count.
C20_AccessCountedAmended ==
    [][/\ (last'.op \in AccessOps /\ last'.ret = NoMemory) =>
            LET f == DbFile(last'.self, last'.arg.scope)
                ids == Listed_ids(last')
            IN  IF f \notin Files THEN sql' = sql
                ELSE /\ sql'[f] = { Accessed(r, Occurrences(ids, r.id)) :
                                      r \in sql[f] }
                     /\ \A g \in Files \ {f} : sql'[g] = sql[g]
       /\ AccessMonotone]_vars

\* A batch of two different ids has been recorded for two memories of one
\* file.
C20_Witness ==
    /\ last.op = "record_access_batch"
    /\ last.ret = NoMemory
    /\ Len(last.arg.ids) = 2
    /\ last.arg.ids[1] # last.arg.ids[2]
    /\ \E r \in sql[DbFile(last.self, last.arg.scope)] :
         r.id = last.arg.ids[1] /\ r.access_count = 1
    /\ \E r \in sql[DbFile(last.self, last.arg.scope)] :
         r.id = last.arg.ids[2] /\ r.access_count = 1

\* ------------------------------------------------------------- event log
\* Number of events the model lets events.db hold.
MaxEvents == 3

EventCommands == {"save", "search"}

\* EventLog._get_conn: a closed log connects again.
EventLogGetConn(e) == [e EXCEPT !.conn = TRUE]

\* EventLog.log without its try/except: what sqlite raises leaves the call.
EventLogLogUnguarded(e, now, command, written) ==
    LET c == EventLogGetConn(e)
        id == c.seq + 1
    IN  IF written
        THEN [e |-> [c EXCEPT !.rows = Append(@, [id |-> id,
                                                   timestamp |-> now,
                                                   command |-> command]),
                              !.seq = id],
              ret |-> NoMemory]
        ELSE [e |-> c, ret |-> Raised]

\* EventLog.log: one INSERT and a commit inside try/except Exception.  The
\* id column is INTEGER PRIMARY KEY AUTOINCREMENT: one more than the largest
\* id the table ever held.  `written` is FALSE when sqlite raises (read-only
\* or locked file, full disk): nothing is inserted and nothing is raised.
EventLogLog(e, now, command, written) ==
    LET c == EventLogGetConn(e)
        id == c.seq + 1
    IN  IF written
        THEN [e |-> [c EXCEPT !.rows = Append(@, [id |-> id,
                                                   timestamp |-> now,
                                                   command |-> command]),
                              !.seq = id],
              ret |-> NoMemory]
        ELSE [e |-> c, ret |-> NoMemory]

\* EventLog.close
EventLogClose(e) == [e |-> [e EXCEPT !.conn = FALSE], ret |-> NoMemory]

\* EventLog.get_command_counts: the events since the cutoff, per command.
EventLogGetCommandCounts(e, now, since_days) ==
    LET c == EventLogGetConn(e)
        cutoff == now - since_days
        since(command) == { i \in 1..Len(c.rows) :
                              /\ c.rows[i].command = command
                              /\ c.rows[i].timestamp >= cutoff }
    IN  [e |-> c,
         ret |-> [counts |-> { <<command, Cardinality(since(command))>> :
                               command \in { c.rows[i].command :
                                             i \in DOMAIN c.rows } }]]

\* A call on the EventLog of the process.
CommitEvents(r, op, arg) ==
    /\ events' = r.e
    /\ last' = [op |-> op, self |-> "P", arg |-> arg, ret |-> r.ret]
    /\ UNCHANGED <<sql, legacy, vec, clock, sessions, job, pending, managers>>

LogEvent(command, written) ==
    /\ Len(events.rows) < MaxEvents
    /\ CommitEvents(EventLogLog(events, clock, command, written), "log",
                    [command |-> command, written |-> written,
                     closed |-> ~events.conn])

CloseLog == CommitEvents(EventLogClose(events), "close", [id |-> -1])

GetCommandCounts(since_days) ==
    CommitEvents(EventLogGetCommandCounts(events, clock, since_days),
                 "get_command_counts", [since_days |-> since_days])

\* cli save with the event it logs once the memory is stored.
CliSaveLogged(self, content, scope, written) ==
    LET r == StoreSave(World, self, content, NoCategory, scope, FALSE,
                       "user_explicit", {}, NoTime, {})
        l == EventLogLog(events, r.w.clock, "save", written)
    IN  /\ Len(events.rows) < MaxEvents
        /\ r.w.clock <= MaxClock
        /\ sql' = r.w.sql
        /\ legacy' = r.w.legacy
        /\ vec' = r.w.vec
        /\ clock' = r.w.clock
        /\ events' = l.e
        /\ last' = [op |-> "cli_save", self |-> self,
                    arg |-> [command |-> "save", written |-> written,
                             closed |-> ~events.conn],
                    ret |-> IF l.ret = Raised THEN Raised ELSE r.ret]
        /\ UNCHANGED <<sessions, job, pending, managers>>

NextEvents ==
    \/ \E command \in EventCommands, written \in BOOLEAN :
         LogEvent(command, written)
    \/ CloseLog
    \/ \E since_days \in 0..1 : GetCommandCounts(since_days)
    \/ \E written \in BOOLEAN : CliSaveLogged("P", TheContent, "project",
                                              written)

SpecEvents == Init /\ [][NextEvents]_vars

EventIds(e) == { e.rows[i].id : i \in 1..Len(e.rows) }

\* C21: EventLog.log never raises, also on a closed log and when the
\* database cannot be written; a log that is written appends exactly one
\* event whose id is greater than every id in the table; no step changes or
\* removes an event that is there.
C21_LogAppendOnly ==
    [][/\ last'.ret # Raised
       /\ Len(events'.rows) >= Len(events.rows)
       /\ \A i \in 1..Len(events.rows) : events'.rows[i] = events.rows[i]
       /\ (last'.op \in {"log", "cli_save"} /\ last'.arg.written)
            => /\ Len(events'.rows) = Len(events.rows) + 1
               /\ \A id \in EventIds(events) :
                    events'.rows[Len(events'.rows)].id > id
       /\ ~(last'.op \in {"log", "cli_save"} /\ last'.arg.written)
            => events'.rows = events.rows]_vars

\* A second event was written by a log call on a closed EventLog.
C21_Witness ==
    /\ last.op = "log"
    /\ last.arg.closed
    /\ last.arg.written
    /\ Len(events.rows) >= 2

\* ---------------------------------------------------------- vector search
\* include_groups=None, as distinct from the empty list.
NoList == {"<None>"}

\* The similarity 1 - _distance of the query and a content, in percent: the
\* embedding provider puts equal texts at distance 0 and a text next to the
\* texts that contain it.
Similarity(query, content) ==
    IF content = query THEN 100
    ELSE IF Contains(content, query) THEN 50
    ELSE 0

\* table.search(query_embedding).limit(n): the n nearest rows, in every
\* order the table may give to rows at the same distance.
RECURSIVE Nearest(_, _, _)
Nearest(rows, query, n) ==
    IF n <= 0 \/ rows = {} THEN { << >> }
    ELSE UNION { { <<r>> \o s : s \in Nearest(rows \ {r}, query, n - 1) } :
                 r \in { x \in rows :
                           \A y \in rows : Similarity(query, y.content)
                                             <= Similarity(query, x.content) } }

\* results_df.head(limit)
Head_(s, limit) == SubSeq(s, 1, IF Len(s) < limit THEN Len(s) ELSE limit)

\* VectorStore.search, the threshold and category filters over the rows
\* fetched.
VecPassed(nearest, query, threshold, category) ==
    LET Pass(v) == /\ Similarity(query, v.content) >= threshold
                   /\ category # NoCategory => v.category = category
    IN  SelectSeq(nearest, Pass)

\* VectorStore.search, matches_groups and the branch that applies it.
VecGroupFilter(passed, include_groups, exclude_group_scope) ==
    LET NotGroup(v) == v.scope # "group"
        Matches(v) ==
            \/ v.scope # "group"
            \/ "all" \in { LowerName(g) : g \in include_groups }
            \/ v.groups \cap include_groups # {}
    IN  IF exclude_group_scope THEN SelectSeq(passed, NotGroup)
        ELSE IF include_groups # NoList THEN SelectSeq(passed, Matches)
        ELSE passed

\* VectorSearchResult of a row.
VecResult(v, query) ==
    [memory_id |-> v.memory_id, content |-> v.content,
     score |-> Similarity(query, v.content), category |-> v.category,
     scope |-> v.scope, groups |-> v.groups]

VecResults(s, query) == [i \in 1..Len(s) |-> VecResult(s[i], query)]

\* VectorStore.search on the rows fetched.
VecSearchFrom(nearest, query, limit, threshold, category, include_groups, exclude_group_scope) ==
    VecResults(Head_(VecGroupFilter(VecPassed(nearest, query, threshold,
                                              category),
                                    include_groups, exclude_group_scope),
                     limit),
               query)

\* VectorStore.search: every list the call may return.
VecSearch(w, self, query, scope, limit, threshold, category, include_groups, exclude_group_scope) ==
    { VecSearchFrom(nearest, query, limit, threshold, category,
                    include_groups, exclude_group_scope) :
        nearest \in Nearest(w.vec[DbFile(self, scope)], query, limit * 3) }

\* results.sort(key=score, reverse=True): stable.
SortByScore(s) ==
    LET At100(r) == r.score = 100
        At50(r) == r.score = 50
        At0(r) == r.score = 0
    IN  SelectSeq(s, At100) \o SelectSeq(s, At50) \o SelectSeq(s, At0)

\* VectorStore.search_combined: every list the call may return.
VecSearchCombined(w, self, query, limit, threshold, category, include_groups, include_global) ==
    LET project == IF self # NoProject
                   THEN VecSearch(w, self, query, "project", limit,
                                  threshold, category, NoList, FALSE)
                   ELSE { << >> }
        global == IF include_global
                  THEN VecSearch(w, self, query, "global", limit, threshold,
                                 category, include_groups,
                                 include_groups = NoList)
                  ELSE { << >> }
    IN  { Head_(SortByScore(p \o g), limit) : p \in project, g \in global }

\* One call of VectorStore.search; the rows that passed the threshold and
\* category filters are kept with the call.
VecSearchCall(self, query, scope, limit, threshold, category, include_groups, exclude_group_scope) ==
    \E nearest \in Nearest(vec[DbFile(self, scope)], query, limit * 3) :
        Commit(Result(World,
                      [results |->
                         VecSearchFrom(nearest, query, limit, threshold,
                                       category, include_groups,
                                       exclude_group_scope)]),
               "vector_search", self,
               [scope |-> scope, limit |-> limit,
                include_groups |-> include_groups,
                exclude_group_scope |-> exclude_group_scope,
                passed |-> VecResults(VecPassed(nearest, query, threshold,
                                                category), query)])

VecSearchCombinedCall(self, query, limit, threshold, include_groups, include_global) ==
    \E results \in VecSearchCombined(World, self, query, limit, threshold,
                                     NoCategory, include_groups,
                                     include_global) :
        Commit(Result(World, [results |-> results]),
               "search_combined", self,
               [limit |-> limit, include_groups |-> include_groups,
                include_global |-> include_global])

VecContents == { <<"a">>, <<"a", "b">> }
VecIncludeSets == { NoList, {}, {"backend"}, {"all"} }

NextVecSearch ==
    \/ \E content \in VecContents, scope \in ValidScopes :
         CliSave("P", content, scope, FALSE,
                 IF scope = "group" THEN {"backend"} ELSE {}, TRUE)
    \/ \E limit \in 1..2, threshold \in {50, 100},
          category \in {NoCategory, "factual"},
          include_groups \in VecIncludeSets,
          exclude_group_scope \in BOOLEAN :
         VecSearchCall("P", <<"a">>, "global", limit, threshold, category,
                       include_groups, exclude_group_scope)
    \/ \E limit \in 1..2, include_groups \in VecIncludeSets,
          include_global \in BOOLEAN :
         VecSearchCombinedCall("P", <<"a">>, limit, 50, include_groups,
                               include_global)

SpecVecSearch == Init /\ [][NextVecSearch]_vars

\* The group rule of the claim for a row of the global table.
KeptByGroups(v, include_groups, exclude_group_scope) ==
    \/ v.scope # "group"
    \/ /\ ~exclude_group_scope
       /\ include_groups # NoList
       /\ \/ "all" \in include_groups
          \/ v.groups \cap include_groups # {}

\* C22: VectorStore.search over the global table returns the first `limit`
\* of the rows that passed the threshold and category filters and that the
\* group rule keeps: a row with scope=group is kept iff exclude_group_scope
\* is false, include_groups is not None and it holds "all" or one of the
\* row's groups; a row with another scope is always kept.
C22_GroupFilter ==
    last.op = "vector_search" =>
        LET Kept(v) == KeptByGroups(v, last.arg.include_groups,
                                    last.arg.exclude_group_scope)
        IN  last.ret.results
              = Head_(SelectSeq(last.arg.passed, Kept), last.arg.limit)

\* The same through search_combined, which never passes include_groups=None
\* without exclude_group_scope: no group row is returned without a list.
C22_CombinedExcludes ==
    (last.op = "search_combined" /\ last.arg.include_groups = NoList)
        => \A i \in 1..Len(last.ret.results) :
              last.ret.results[i].scope # "group"

\* ----------------------------------------------------- relevant memories
\* RelevanceEngine.get_relevant_memories: every RelevantMemories the call
\* may return; `vector` tells whether a vector store is there and enabled.
EngineGetRelevantMemories(w, self, query, limit, threshold, include_global, vector) ==
    LET semantic == IF vector
                    THEN VecSearchCombined(w, self, query, limit, threshold,
                                           NoCategory, NoList,
                                           include_global)
                    ELSE { << >> }
        pp == StoreListPinned(w, self, "project")
        pg == StoreListPinned(w, self, "global")
    IN  { [semantic_results |-> semantic_results,
           keyword_results |-> KeywordFallback(w, self, query, limit,
                                               semantic_results,
                                               include_global).ret,
           pinned |-> pp.ret \o pg.ret] :
          semantic_results \in semantic }

GetRelevant(self, query, limit, threshold, include_global, vector) ==
    \E ret \in EngineGetRelevantMemories(World, self, query, limit,
                                         threshold, include_global, vector) :
        Commit(Result(World, ret), "get_relevant", self,
               [query |-> query, limit |-> limit,
                include_global |-> include_global, vector |-> vector])

NextRelevant ==
    \/ \E scope \in {"project", "global"}, pinned \in BOOLEAN,
          vok \in BOOLEAN :
         CliSave("P", TheContent, scope, pinned, {}, vok)
    \/ \E limit \in 1..3, threshold \in {50, 100},
          include_global \in BOOLEAN, vector \in BOOLEAN :
         GetRelevant("P", TheContent, limit, threshold, include_global,
                     vector)

\* A project with one memory saved long ago, with its vector record.
InitRelevant ==
    /\ sql = [f \in Files |-> IF f = "P"
                                THEN {Original(1, "factual", "project")}
                                ELSE {}]
    /\ vec = [f \in Files |-> IF f = "P"
                                THEN {VecRecord(OriginalId(1), TheContent,
                                                "factual", "project", {})}
                                ELSE {}]
    /\ legacy = [f \in Files |-> FALSE]
    /\ last = [op |-> "init", self |-> "P", arg |-> [id |-> -1],
               ret |-> NoMemory]
    /\ sessions = NoSessions
    /\ job = NoJob
    /\ events = NoEvents
    /\ pending = NoPending
    /\ managers = NoManagers
    /\ clock = 0

SpecRelevant == InitRelevant /\ [][NextRelevant]_vars

SemanticIds(ret) ==
    { ret.semantic_results[i].memory_id : i \in 1..Len(ret.semantic_results) }

InProjectFile(m) == \E r \in sql[DbFile(last.self, "project")] : r.id = m.id

\* C23: get_relevant_memories fills from keyword search only when the
\* semantic results are fewer than limit; keyword_results hold no id of the
\* semantic results and no id twice, project matches before global ones,
\* global ones only if include_global is set; together the two lists are at
\* most limit long; the pinned memories come in a list of their own.
C23_KeywordFill ==
    last.op = "get_relevant" =>
        LET ret == last.ret
            kw == ret.keyword_results
        IN  /\ Len(ret.semantic_results) >= last.arg.limit => kw = << >>
            /\ \A i \in 1..Len(kw) : kw[i].id \notin SemanticIds(ret)
            /\ \A i, j \in 1..Len(kw) : kw[i].id = kw[j].id => i = j
            /\ \A i, j \in 1..Len(kw) :
                 (InProjectFile(kw[j]) /\ ~InProjectFile(kw[i])) => j < i
            /\ ~last.arg.include_global =>
                 \A i \in 1..Len(kw) : InProjectFile(kw[i])
            /\ Len(ret.semantic_results) + Len(kw) <= last.arg.limit
            /\ \A i \in 1..Len(ret.pinned) : ret.pinned[i].pinned

\* One semantic hit, and the keyword search filled in a project and a global
\* memory next to it.
C23_Witness ==
    /\ last.op = "get_relevant"
    /\ Len(last.ret.semantic_results) = 1
    /\ \E i, j \in 1..Len(last.ret.keyword_results) :
         /\ InProjectFile(last.ret.keyword_results[i])
         /\ ~InProjectFile(last.ret.keyword_results[j])
    /\ \E r \in sql[DbFile(last.self, "project")] :
         r.id \in SemanticIds(last.ret)

\* -------------------------------------------------------- startup context
\* timedelta(days=7) and limit=10 of get_startup_context.
RecentDays == 7
StartupSummaries == 10

\* get_startup_context, the loop over the summaries (newest first): the
\* session id found so far and the summaries appended so far.
RECURSIVE ScanSummaries(_, _, _, _, _)
ScanSummaries(summaries, i, recent_cutoff, latest_session_id, previous) ==
    IF i > Len(summaries)
    THEN [previous_session_id |-> latest_session_id,
          previous_session_summaries |-> previous]
    ELSE LET summary == summaries[i]
             recent == summary.created_at >= recent_cutoff
             session_id == MetaGet(summary.metadata, "session_id", NoSession)
             latest == IF /\ recent
                          /\ session_id # NoSession
                          /\ latest_session_id = NoSession
                       THEN session_id
                       ELSE latest_session_id
         IN  ScanSummaries(summaries, i + 1, recent_cutoff, latest,
                           IF recent /\ session_id = latest
                           THEN Append(previous, summary)
                           ELSE previous)

\* RelevanceEngine.get_startup_context; a list call that raises (no project
\* path) leaves its part empty.
EngineGetStartupContext(w, self) ==
    LET pp == IF self \in Files THEN StoreListPinned(w, self, "project").ret
              ELSE << >>
        pg == StoreListPinned(w, self, "global").ret
        summaries == IF self \in Files
                     THEN StoreList(w, self, "project", "session_summary",
                                    FALSE, StartupSummaries, FALSE).ret
                     ELSE << >>
        scan == ScanSummaries(summaries, 1, w.clock - RecentDays, NoSession,
                              << >>)
    IN  [pinned_memories |-> pp \o pg,
         has_previous_session |-> summaries # << >>,
         previous_session_id |-> scan.previous_session_id,
         previous_session_summaries |-> scan.previous_session_summaries]

GetStartupContext(self) ==
    Commit(Result(World, EngineGetStartupContext(World, self)),
           "get_startup_context", self, [id |-> -1])

\* The parameters get_startup_context takes next to self.
StartupContextParams == {"project_path"}

\* cli startup: it calls get_startup_context(project_path, groups=...,
\* exclude_groups=...); a keyword the method does not take is a TypeError
\* that nothing catches, and a StartupContext has no group_memories for the
\* line that records the accesses.
CliStartup(self, groups, exclude_groups) ==
    LET keywords == {"groups", "exclude_groups"}
        context == EngineGetStartupContext(World, self)
        fields == DOMAIN context
    IN  Commit(Result(World,
                      IF /\ keywords \subseteq StartupContextParams
                         /\ "group_memories" \in fields
                      THEN context
                      ELSE Raised),
               "startup", self,
               [groups |-> groups, exclude_groups |-> exclude_groups])

\* A summary of session 7, written more than a week ago.
OldSummary ==
    [Original(1, "session_summary", "project") EXCEPT
       !.source = "auto_session", !.metadata = { <<"session_id", 7>> }]

InitStartup ==
    /\ sql = [f \in Files |-> IF f = "P" THEN {OldSummary} ELSE {}]
    /\ vec = [f \in Files |-> {}]
    /\ legacy = [f \in Files |-> FALSE]
    /\ last = [op |-> "init", self |-> "P", arg |-> [id |-> -1],
               ret |-> NoMemory]
    /\ sessions = NoSessions
    /\ job = NoJob
    /\ events = NoEvents
    /\ pending = NoPending
    /\ managers = NoManagers
    /\ clock = 0

NextStartup ==
    \/ StartSession("P")
    \/ \E session_id \in SessionIds \cup {NoSession} :
         AddSummary("P", TheContent, session_id, "none")
    \/ \E scope \in ValidScopes, pinned \in BOOLEAN :
         Save("P", TheContent, NoCategory, scope, pinned, NoTime,
              IF scope = "group" THEN {"backend"} ELSE {})
    \/ GetStartupContext("P")
    \/ \E groups \in VecIncludeSets : CliStartup("P", groups, NoList)

SpecStartup == InitStartup /\ [][NextStartup]_vars

SessionOf(m) == MetaGet(m.metadata, "session_id", NoSession)

\* The stored summaries of the last 7 days that carry a session id.
RecentSessionSummaries ==
    { r \in sql[last.self] :
        /\ r.category = "session_summary"
        /\ r.created_at >= clock - RecentDays
        /\ SessionOf(r) # NoSession }

\* C24: previous_session_summaries of get_startup_context holds only
\* session_summary memories of the last 7 days whose metadata.session_id is
\* the returned previous_session_id, which is the session id of the most
\* recent such summary; no summary without session_id and none of another
\* session is in it.
C24_PreviousSession ==
    last.op = "get_startup_context" =>
        LET ret == last.ret
            previous == ret.previous_session_summaries
        IN  /\ \A i \in 1..Len(previous) :
                 /\ previous[i] \in RecentSessionSummaries
                 /\ SessionOf(previous[i]) = ret.previous_session_id
            /\ IF RecentSessionSummaries = {}
               THEN ret.previous_session_id = NoSession
               ELSE \E r \in RecentSessionSummaries :
                      /\ \A x \in RecentSessionSummaries :
                           x.created_at <= r.created_at
                      /\ ret.previous_session_id = SessionOf(r)

\* The pinned memories of the project and the pinned global ones.
PinnedOf(self) ==
    { r \in sql[self] : r.pinned }
      \cup { r \in sql[GlobalFile] : r.pinned /\ r.scope = "global" }

\* The group memories a groups list selects.
SelectedGroupMemories(groups) ==
    { r \in sql[GlobalFile] :
        /\ r.scope = "group"
        /\ groups # NoList
        /\ \/ "all" \in groups
           \/ r.groups \cap groups # {} }

\* C25: the startup command gets from get_startup_context(project_path,
\* groups, exclude_groups) a context that holds all pinned project and
\* pinned global memories and, as group_memories, exactly the group memories
\* its groups list selects: none without a list, all for ["all"], else those
\* that share a group with the list.
C25_StartupGroups ==
    last.op = "startup" =>
        /\ last.ret # Raised
        /\ PinnedOf(last.self) \subseteq SeqRange(last.ret.pinned_memories)
        /\ SeqRange(last.ret.group_memories)
             = SelectedGroupMemories(last.arg.groups)

\* ------------------------------------------------------ session summaries
\* The sessions file with the summary_count of session `id` raised by one.
CountedOnce(file, id) ==
    [i \in 1..Len(file) |->
       IF file[i].id = id THEN [file[i] EXCEPT !.summary_count = @ + 1]
       ELSE file[i]]

\* C26: add_summary aimed at a session of the sessions file (by session_id
\* or as the manager's current session) creates exactly one project memory
\* of category session_summary whose metadata.session_id is that session's
\* id, raises the session's summary_count by exactly 1 and leaves every
\* other session record as it was.
C26_SummaryCounted ==
    [][(last'.op = "add_summary" /\ last'.arg.target_id \in SessionIds)
         => /\ \E m \in sql'[last'.self] :
                 /\ sql'[last'.self] = sql[last'.self] \cup {m}
                 /\ m \notin sql[last'.self]
                 /\ m.category = "session_summary"
                 /\ m.scope = "project"
                 /\ SessionOf(m) = last'.arg.target_id
            /\ sql'[GlobalFile] = sql[GlobalFile]
            /\ sessions'.file
                 = CountedOnce(sessions.file, last'.arg.target_id)]_vars

\* ------------------------------------------------------- sessions file
\* SessionManager.end_session: the first record with the target id gets
\* ended_at; the result holds the sessions and the session returned.
ManagerEndSession(s, now, session_id) ==
    LET target_id == IF session_id # NoSession THEN session_id ELSE s.current
        found == { i \in 1..Len(s.file) : s.file[i].id = target_id }
        k == CHOOSE i \in found : \A j \in found : i <= j
        ended == [s.file EXCEPT ![k].ended_at = now]
    IN  IF target_id = NoSession \/ found = {}
        THEN [s |-> s, ret |-> [id |-> NoSession]]
        ELSE [s |-> [file |-> ended,
                     current |-> IF s.current = target_id THEN NoSession
                                 ELSE s.current],
              ret |-> ended[k]]

\* SessionManager.get_last_session
ManagerGetLastSession(s) ==
    IF s.file # << >> THEN s.file[1] ELSE [id |-> NoSession]

EndSession(self, session_id) ==
    LET r == ManagerEndSession(sessions, clock, session_id)
    IN  CommitSession([w |-> World, s |-> r.s, ret |-> r.ret],
                      "end_session", self,
                      [target_id |-> IF session_id # NoSession
                                     THEN session_id ELSE sessions.current])

GetLastSession(self) ==
    CommitSession([w |-> World, s |-> sessions,
                   ret |-> ManagerGetLastSession(sessions)],
                  "get_last_session", self, [id |-> -1])

\* sessions.json of a project that has seen many sessions, all but the
\* newest ended: FullFile without its first record is one short of the cap.
\* A new manager has no current session.
FullFile ==
    [i \in 1..SessionCap |->
       [id |-> SessionCap + 1 - i, started_at |-> 0 - i,
        ended_at |-> IF i = 2 THEN NoTime ELSE 1 - i, summary_count |-> 0]]

InitSessions ==
    /\ sql = [f \in Files |-> {}]
    /\ vec = [f \in Files |-> {}]
    /\ legacy = [f \in Files |-> FALSE]
    /\ last = [op |-> "init", self |-> "P", arg |-> [id |-> -1],
               ret |-> NoMemory]
    /\ sessions = [file |-> SubSeq(FullFile, 2, SessionCap),
                   current |-> NoSession]
    /\ job = NoJob
    /\ events = NoEvents
    /\ pending = NoPending
    /\ managers = NoManagers
    /\ clock = 0

\* The ids a caller may name: none (the current session), the session
\* before the newest, and one that is not in the file.
SessionArgs ==
    { NoSession, NewestId(sessions.file) - 1, NewestId(sessions.file) + 7 }

NextSessions ==
    \/ StartUpTo("P", SessionCap + 1)
    \/ \E session_id \in SessionArgs : EndSession("P", session_id)
    \/ \E session_id \in {NoSession, NewestId(sessions.file)} :
         AddSummary("P", TheContent, session_id, "none")
    \/ GetLastSession("P")

SpecSessions == InitSessions /\ [][NextSessions]_vars

\* The file holds the sessions started last, newest first: ids are handed
\* out in the order of the starts.
NewestFirstFile(file) ==
    \A i \in 1..Len(file) : file[i].id = NewestId(file) + 1 - i

\* C27: whatever start_session, end_session and add_summary calls a
\* SessionManager makes, sessions.json holds at most 100 sessions, the ones
\* started last, newest first; get_last_session returns the session started
\* last; end_session sets ended_at on the targeted session only.
C27_SessionsFile ==
    [][/\ Len(sessions'.file) <= SessionCap
       /\ NewestFirstFile(sessions'.file)
       /\ NewestId(sessions'.file) >= NewestId(sessions.file)
       /\ Len(sessions'.file) >= Len(sessions.file)
       /\ last'.op = "start_session" =>
            /\ NewestId(sessions'.file) = NewestId(sessions.file) + 1
            /\ Len(sessions'.file)
                 = IF Len(sessions.file) < SessionCap
                   THEN Len(sessions.file) + 1 ELSE SessionCap
       /\ last'.op = "get_last_session" =>
            last'.ret.id = NewestId(sessions.file)
       /\ last'.op = "end_session" =>
            \A i \in 1..Len(sessions.file) :
              IF sessions.file[i].id = last'.arg.target_id
              THEN /\ sessions'.file[i]
                        = [sessions.file[i] EXCEPT !.ended_at = clock]
                   /\ last'.ret = sessions'.file[i]
              ELSE sessions'.file[i] = sessions.file[i]]_vars

\* The file was full, a session was started and the one before it ended.
C27_Witness ==
    /\ last.op = "end_session"
    /\ Len(sessions.file) = SessionCap
    /\ NewestId(sessions.file) = SessionCap + 1
    /\ last.ret.id = SessionCap
    /\ sessions.file[2].ended_at = clock
    /\ sessions.file[1].ended_at = NoTime

\* -------------------------------------------------------------- categories
\* The category strings a caller passes: none, a valid one, an unknown one.
CategoryArgs == { NoCategory, "decision", "note" }

NextCategory ==
    \/ \E category \in CategoryArgs, scope \in {"project", "global"} :
         Save("P", TheContent, category, scope, FALSE, NoTime, {})
    \/ \E id \in ArgIds, scope \in {"project", "global"},
          category \in CategoryArgs \ {NoCategory} :
         Update("P", id, scope, [category |-> category])
    \/ \E id \in ArgIds, scope \in {"project", "global"} :
         Update("P", id, scope, [content |-> <<"b">>])

SpecCategory == Init /\ [][NextCategory]_vars

\* C28: after any save and update calls with arbitrary category strings the
\* category of every stored memory is one of factual, decision,
\* task_history, session_summary.
C28_ValidCategory ==
    \A f \in Files : \A r \in sql[f] : r.category \in ValidCategories

\* ------------------------------------------------------------ project path
\* C29: a stored memory has a project_path iff its scope is project: one
\* saved, promoted or moved with scope group or global has none, also in a
\* store bound to a project, and a project memory has the path of the
\* project whose file holds it.
C29_ProjectPathIffProject ==
    \A f \in Files : \A r \in sql[f] :
        /\ r.project_path # NoProject <=> r.scope = "project"
        /\ r.scope = "project" => r.project_path = f

\* -------------------------------------------------- promote and unpromote
\* promote(id) of the store's own project followed by unpromote of the
\* memory it returned, back to that project.
PromoteUnpromote(self, id, to_group) ==
    LET p == StorePromote(World, self, id, self, to_group)
        u == StoreUnpromote(p.w, self, p.ret.id, self)
    IN  /\ IsMemory(p.ret)
        /\ Commit(u, "promote_unpromote", self,
                  [original |-> RowById(sql[self], id),
                   promoted |-> p.ret.id])

NextRoundTrip ==
    \/ \E category \in CategoryArgs \ {NoCategory}, id \in ArgIds :
         Update("P", id, "project", [category |-> category])
    \/ \E pinned \in BOOLEAN, id \in ArgIds :
         Update("P", id, "project",
                [pinned |-> pinned, metadata |-> { <<"k", 1>> }])
    \/ Save("P", <<"b">>, NoCategory, "global", FALSE, NoTime, {})
    \/ \E id \in ArgIds, to_group \in { {}, {"backend"} } :
         PromoteUnpromote("P", id, to_group)

SpecRoundTrip == InitRelevant /\ [][NextRoundTrip]_vars

\* C30: promote(id) of a project memory followed by unpromote(new_id, P)
\* with P the original project gives a memory with scope project and
\* project_path P that carries the original content, category, pinned flag,
\* source and metadata; the file of P holds exactly one row for it and the
\* global file none.
C30_RoundTrip ==
    last.op = "promote_unpromote" =>
        LET m == last.ret
            original == last.arg.original
        IN  /\ IsMemory(m)
            /\ m.scope = "project"
            /\ m.project_path = last.self
            /\ m.content = original.content
            /\ m.category = original.category
            /\ m.pinned = original.pinned
            /\ m.source = original.source
            /\ m.metadata = original.metadata
            /\ Cardinality({ r \in sql[last.self] :
                               r.id \in {m.id, original.id,
                                         last.arg.promoted} }) = 1
            /\ m \in sql[last.self]
            /\ \A r \in sql[GlobalFile] :
                 r.id \notin {m.id, original.id, last.arg.promoted}

\* ---------------------------------------------------------------- cleanup
\* cleanup_expired whose DELETE also takes the rows that expire right now.
StoreCleanupExpiredInclusive(w, self, scope) ==
    LET f == DbFile(self, scope)
        w1 == Conn(w, f)
        gone == { r \in w1.sql[f] :
                    r.expires_at # NoTime /\ r.expires_at <= w1.clock }
    IN  IF f \notin Files THEN Result(w, ValueError)
        ELSE Result([w1 EXCEPT !.sql[f] = @ \ gone],
                    [count |-> Cardinality(gone)])

\* MemoryStore.cleanup_expired: DELETE FROM memories WHERE expires_at IS NOT
\* NULL AND expires_at < now on the file of the scope; returns the rowcount.
StoreCleanupExpired(w, self, scope) ==
    LET f == DbFile(self, scope)
        w1 == Conn(w, f)
        gone == { r \in w1.sql[f] :
                    r.expires_at # NoTime /\ r.expires_at < w1.clock }
    IN  IF f \notin Files THEN Result(w, ValueError)
        ELSE Result([w1 EXCEPT !.sql[f] = @ \ gone],
                    [count |-> Cardinality(gone)])

CleanupExpired(self, scope) ==
    Commit(StoreCleanupExpired(World, self, scope), "cleanup_expired", self,
           [scope |-> scope])

NextCleanup ==
    \/ \E scope \in ValidScopes, expires_at \in {NoTime, clock, clock + 1} :
         Save("P", TheContent, NoCategory, scope, FALSE, expires_at,
              IF scope = "group" THEN {"backend"} ELSE {})
    \/ \E scope \in ValidScopes : CleanupExpired("P", scope)
    \/ CleanupExpired(NoProject, "project")

SpecCleanup == Init /\ [][NextCleanup]_vars

\* The rows of file f that have an expiry earlier than now.
PastExpiry(f) ==
    { r \in sql[f] : r.expires_at # NoTime /\ r.expires_at < clock }

\* C31: cleanup_expired(scope) deletes exactly the rows of the scope's file
\* whose expires_at is set and earlier than now, returns their number and
\* leaves every other row as it is; a second call right after it returns 0.
C31_CleanupExpired ==
    [][(last'.op = "cleanup_expired" /\ last'.self = "P")
         => LET f == DbFile(last'.self, last'.arg.scope)
            IN  /\ sql'[f] = sql[f] \ PastExpiry(f)
                /\ \A g \in Files \ {f} : sql'[g] = sql[g]
                /\ last'.ret = [count |-> Cardinality(PastExpiry(f))]
                /\ (/\ last.op = "cleanup_expired"
                    /\ last.self = "P"
                    /\ DbFile(last.self, last.arg.scope) = f)
                     => last'.ret = [count |-> 0]]_vars

\* cleanup_expired removed one memory and left one that expires right now.
C31_Witness ==
    /\ last.op = "cleanup_expired"
    /\ last.ret = [count |-> 1]
    /\ \E r \in sql[DbFile(last.self, last.arg.scope)] : r.expires_at = clock

\* ------------------------------------------------------------ descendants
MaxDirs == 3

\* Directories a project can be recorded for: a child, a deep descendant, the
\* parent, a sibling, a sibling whose name starts with the parent's name.
RecordedPaths ==
    { <<"/", "ws", "studio">>,
      <<"/", "ws", "studio", "db-writer">>,
      <<"/", "ws", "studio", "api-server">>,
      <<"/", "ws", "studio", "packages", "core">>,
      <<"/", "ws", "studio2">>,
      <<"/", "ws", "other-project">> }

ParentDirs == { <<"/">>, <<"/", "ws">>, <<"/", "ws", "studio">>,
                <<"/", "ws", "studio", "packages">> }

\* The storage directories in any order iterdir may yield them.
DirListings ==
    { d \in UNION { [1..n -> RecordedPaths] : n \in 0..MaxDirs } :
        \A i, j \in 1..Len(d) : i # j => d[i] # d[j] }

FindDescendants(dirs, parent_dir, max_results) ==
    Commit(Result(World, [paths |-> FindDescendantProjectPaths(
                                       dirs, parent_dir, max_results)]),
           "find_descendant_project_paths", NoProject,
           [dirs |-> dirs, parent_dir |-> parent_dir,
            max_results |-> max_results])

NextDescendants ==
    \E dirs \in DirListings, parent_dir \in ParentDirs,
       max_results \in 0..MaxDirs :
         FindDescendants(dirs, parent_dir, max_results)

SpecDescendants == Init /\ [][NextDescendants]_vars

\* Every returned path is recorded and lies strictly below the parent.
StrictDescendantsOnly ==
    last.op = "find_descendant_project_paths" =>
      \A i \in 1..Len(last.ret.paths) :
        LET path == last.ret.paths[i]
            parent == last.arg.parent_dir
        IN  /\ \E k \in 1..Len(last.arg.dirs) : last.arg.dirs[k] = path
            /\ Len(path) > Len(parent)
            /\ SubSeq(path, 1, Len(parent)) = parent

\* A parent of two or fewer components has no descendants.
ShallowParentEmpty ==
    (last.op = "find_descendant_project_paths"
       /\ Len(last.arg.parent_dir) <= 2) => last.ret.paths = << >>

\* C32: find_descendant_project_paths(parent, max_results) returns only
\* recorded paths that are strict descendants of parent, nothing for a parent
\* of two or fewer components, and at most max_results entries.
C32_Descendants ==
    /\ StrictDescendantsOnly
    /\ ShallowParentEmpty
    /\ last.op = "find_descendant_project_paths"
         => Len(last.ret.paths) <= last.arg.max_results

\* ------------------------------------------------------- moves keep a row
NextMove ==
    \/ \E self \in {"P", NoProject}, content \in {<<"a">>, <<"b">>},
          scope \in {"project", "global"} :
         Save(self, content, NoCategory, scope, FALSE, NoTime, {})
    \/ \E self \in {"P", NoProject}, id \in ArgIds, new_scope \in ValidScopes :
         SetScope(self, id, new_scope,
                  IF new_scope = "group" THEN {"backend"} ELSE {})
    \/ \E id \in ArgIds, to_group \in { {}, {"backend"} } :
         Promote("P", id, "P", to_group)
    \/ \E self \in {"P", NoProject}, id \in ArgIds : Unpromote(self, id, "P")

SpecMove == Init /\ [][NextMove]_vars

MoveOps == {"promote", "unpromote", "set_scope"}

\* C33: promote, unpromote and set_scope never lose the memory: whether the
\* call returns or raises, a row carrying the content of the memory it was
\* called for exists afterwards, under the old id or under a new one.
C33_NeverLost ==
    [][last'.op \in MoveOps
         => \A m \in AllRows(sql) :
              m.id = last'.arg.id
                => \E r \in AllRows(sql') :
                     /\ r.content = m.content
                     /\ r.id = m.id \/ r.id \notin AllIds(sql)]_vars

\* ------------------------------------------------- scope-parameterised ops
\* MemoryStore.reset: DELETE FROM memories on the file of the scope.
StoreReset(w, self, scope) ==
    LET f == DbFile(self, scope)
        w1 == Conn(w, f)
    IN  IF f \notin Files THEN Result(w, ValueError)
        ELSE Result([w1 EXCEPT !.sql[f] = {}],
                    [count |-> Cardinality(w1.sql[f])])

\* MemoryStore.delete_matching: DELETE FROM memories WHERE content LIKE
\* %query% on the file of the scope.
StoreDeleteMatching(w, self, query, scope) ==
    LET f == DbFile(self, scope)
        w1 == Conn(w, f)
        hit == { r \in w1.sql[f] :
                   Like(r.content, <<"%">> \o query \o <<"%">>) }
    IN  IF f \notin Files THEN Result(w, ValueError)
        ELSE Result([w1 EXCEPT !.sql[f] = @ \ hit],
                    [count |-> Cardinality(hit)])

\* MemoryStore.count: SELECT COUNT(*) FROM memories on the file of the scope.
StoreCount(w, self, scope) ==
    LET f == DbFile(self, scope)
        w1 == Conn(w, f)
    IN  IF f \notin Files THEN Result(w, ValueError)
        ELSE Result(w1, [count |-> Cardinality(w1.sql[f])])

Reset(self, scope) ==
    Commit(StoreReset(World, self, scope), "reset", self, [scope |-> scope])

DeleteMatching(self, query, scope) ==
    Commit(StoreDeleteMatching(World, self, query, scope), "delete_matching",
           self, [scope |-> scope, query |-> query])

Count(self, scope) ==
    Commit(StoreCount(World, self, scope), "count", self, [scope |-> scope])

NextScoped ==
    \/ \E scope \in ValidScopes, content \in {<<"a">>, <<"b">>} :
         Save("P", content, NoCategory, scope, FALSE, NoTime,
              IF scope = "group" THEN {"backend"} ELSE {})
    \/ \E scope \in ValidScopes : Reset("P", scope)
    \/ \E scope \in ValidScopes, query \in {<<"a">>, <<"B">>} :
         DeleteMatching("P", query, scope)
    \/ \E scope \in ValidScopes : Count("P", scope)

SpecScoped == Init /\ [][NextScoped]_vars

\* The stored memories a store bound to `self` holds in scope s.
InScope(files, self, s) == { r \in files[DbFile(self, s)] : r.scope = s }

\* C34: reset(s) and delete_matching(q, s) leave every memory of another
\* scope in place, and count(s) is the number of stored memories of scope s.
C34_ScopedOps ==
    [][/\ last'.op \in {"reset", "delete_matching"}
          => \A s \in ValidScopes \ {last'.arg.scope} :
               InScope(sql, last'.self, s) \subseteq InScope(sql', last'.self, s)
       /\ last'.op = "count"
          => last'.ret = [count |->
                 Cardinality(InScope(sql, last'.self, last'.arg.scope))]]_vars

\* ------------------------------------------------ vector records and rows
\* cli forget --search <query> --yes: delete_matching on both files; the
\* vector store is not called.
CliForgetSearch(self, query) ==
    LET p == StoreSearchKeyword(World, self, query, "project", 100)
        g == StoreSearchKeyword(p.w, self, query, "global", 100)
        d == StoreDeleteMatching(g.w, self, query, "project")
        e == StoreDeleteMatching(d.w, self, query, "global")
    IN  IF p.ret \o g.ret = << >>
        THEN Commit(Result(g.w, [count |-> 0]), "forget_search", self,
                    [query |-> query])
        ELSE Commit(Result(e.w, [count |-> d.ret.count + e.ret.count]),
                    "forget_search", self, [query |-> query])

\* cli cleanup: cleanup_expired on both files; the vector store is not called.
CliCleanup(self) ==
    LET p == StoreCleanupExpired(World, self, "project")
        g == StoreCleanupExpired(p.w, self, "global")
    IN  Commit(Result(g.w, [count |-> p.ret.count + g.ret.count]), "cleanup",
               self, [id |-> -1])

\* The CLI with semantic search on and an embedding provider that works.
NextOrphans ==
    \/ \E scope \in {"project", "global"}, content \in {<<"a">>, <<"b">>} :
         CliSave("P", content, scope, FALSE, {}, TRUE)
    \/ \E id \in ArgIds : CliForget("P", id, TRUE)
    \/ \E query \in {<<"a">>, <<"c">>} : CliForgetSearch("P", query)
    \/ CliCleanup("P")
    \/ \E id \in ArgIds, to_group \in { {}, {"backend"} } :
         Promote("P", id, "P", to_group)
    \/ \E id \in ArgIds : Unpromote("P", id, "P")
    \/ \E id \in ArgIds, new_scope \in ValidScopes :
         SetScope("P", id, new_scope,
                  IF new_scope = "group" THEN {"backend"} ELSE {})
    \/ \E scope \in {"project", NoScope} :
         CliPrune("P", scope, NoDays, TRUE, FALSE, TRUE)

SpecOrphans == Init /\ [][NextOrphans]_vars

\* C35: when no vector operation fails, every vector record belongs to a
\* memory stored in the same file.
C35_NoOrphanVectors ==
    \A f \in Files : \A v \in vec[f] : \E r \in sql[f] : r.id = v.memory_id

\* ----------------------------------------------- prune after confirmation
CommitPending(r, op, self, arg, p) ==
    /\ r.w.clock <= MaxClock
    /\ sql' = r.w.sql
    /\ legacy' = r.w.legacy
    /\ vec' = r.w.vec
    /\ clock' = r.w.clock
    /\ last' = [op |-> op, self |-> self, arg |-> arg, ret |-> r.ret]
    /\ pending' = p
    /\ UNCHANGED <<sessions, job, events, managers>>

\* cli prune up to click.confirm: the candidates found are shown and kept
\* while the command waits for the answer; with no candidate it returns.
CliPruneFind(self, scope, never_accessed, include_pinned) ==
    LET c == FindCandidates(World, self, scope, NoDays, never_accessed,
                            NoCategory, ~include_pinned)
    IN  /\ pending = NoPending
        /\ CommitPending(Listed(Result(c.w, MemoriesOf(c.ret))), "prune_find",
                         self, [scope |-> scope],
                         IF c.ret = << >> THEN NoPending
                         ELSE [candidates |-> c.ret,
                               exclude_pinned |-> ~include_pinned,
                               never_accessed |-> never_accessed])

\* cli prune after the answer: engine.prune(candidates) when confirmed.
CliPruneAnswer(self, confirmed, vok) ==
    LET r == IF confirmed
             THEN EnginePrune(World, self, pending.candidates, vok)
             ELSE Result(World, 0)
    IN  /\ pending # NoPending
        /\ CommitPending(Result(r.w, [pruned |-> r.ret]), "prune_answer",
                         self,
                         [confirmed |-> confirmed,
                          exclude_pinned |-> pending.exclude_pinned,
                          never_accessed |-> pending.never_accessed],
                         NoPending)

\* A prune command at its prompt while other commands pin and read.
NextPrompt ==
    \/ \E pinned \in BOOLEAN :
         CliSave("P", TheContent, "project", pinned, {}, TRUE)
    \/ \E scope \in {"project", NoScope}, include_pinned \in BOOLEAN :
         CliPruneFind("P", scope, TRUE, include_pinned)
    \/ \E confirmed \in BOOLEAN : CliPruneAnswer("P", confirmed, TRUE)
    \/ \E id \in ArgIds : Pin("P", id, "project")
    \/ \E id \in ArgIds : RecordAccess("P", id, "project")

SpecPrompt == Init /\ [][NextPrompt]_vars

\* C36: a memory that prune deletes meets the criteria of the command at the
\* moment it is deleted: it is not pinned when pinned memories are excluded
\* and was never accessed when that was asked for.
C36_PruneRechecks ==
    [][last'.op = "prune_answer"
         => \A r \in AllRows(sql) \ AllRows(sql') :
              /\ last'.arg.exclude_pinned => ~r.pinned
              /\ last'.arg.never_accessed => r.access_count = 0]_vars

\* ------------------------------------------------ two session managers
\* The id generate_session_id gives the second manager: unlike every id of
\* the first.
OtherSessionId == 50

\* A step of the second SessionManager bound to the same project: it reads
\* or rewrites sessions.json.
CommitManagers(op, arg, file, m) ==
    /\ sessions' = [sessions EXCEPT !.file = file]
    /\ managers' = m
    /\ last' = [op |-> op, self |-> "P", arg |-> arg, ret |-> NoMemory]
    /\ UNCHANGED <<sql, legacy, vec, clock, job, events, pending>>

\* The second manager enters start_session or end_session(session_id):
\* sessions = self._load_sessions().
OtherLoad(op, session_id) ==
    /\ managers.pc = "idle"
    /\ op = "start_session" =>
         /\ session_id = OtherSessionId
         /\ \A i \in 1..Len(sessions.file) :
              sessions.file[i].id # OtherSessionId
    /\ CommitManagers("other_load", [op |-> op, target |-> session_id],
                      sessions.file,
                      [pc |-> op, loaded |-> sessions.file,
                       target |-> session_id])

\* The second manager finishes its call: self._save_sessions(sessions) with
\* the list it loaded, the new session inserted or the target ended;
\* end_session of a session that is not in the list writes nothing.
OtherSave ==
    LET s == [file |-> managers.loaded, current |-> NoSession]
        session == [id |-> managers.target, started_at |-> clock,
                    ended_at |-> NoTime, summary_count |-> 0]
        started == <<session>> \o managers.loaded
        capped == SubSeq(started, 1, IF Len(started) < SessionCap
                                     THEN Len(started) ELSE SessionCap)
        e == ManagerEndSession(s, clock, managers.target)
    IN  /\ managers.pc # "idle"
        /\ CommitManagers("other_save",
                          [op |-> managers.pc, target |-> managers.target],
                          IF managers.pc = "start_session" THEN capped
                          ELSE IF e.ret.id = NoSession THEN sessions.file
                          ELSE e.s.file,
                          NoManagers)

NextRace ==
    \/ StartSession("P")
    \/ \E session_id \in {NoSession} \cup SessionIds :
         EndSession("P", session_id)
    \/ AddSummary("P", TheContent, NoSession, "none")
    \/ \E op \in {"start_session", "end_session"},
          session_id \in {OtherSessionId} \cup SessionIds :
         OtherLoad(op, session_id)
    \/ OtherSave

SpecRace == Init /\ [][NextRace]_vars

\* C37: with two managers on the same sessions.json no update is lost: below
\* the cap every recorded session stays recorded, an ended session stays
\* ended and a summary_count never goes down.
C37_NoLostUpdate ==
    [][\A i \in 1..Len(sessions.file) :
         Len(sessions'.file) < SessionCap
           => \E j \in 1..Len(sessions'.file) :
                /\ sessions'.file[j].id = sessions.file[i].id
                /\ sessions.file[i].ended_at # NoTime
                     => sessions'.file[j].ended_at # NoTime
                /\ sessions'.file[j].summary_count
                     >= sessions.file[i].summary_count]_vars

\* ------------------------------------------------ compaction and pins
\* A store with three memories saved long ago, the first of them pinned,
\* each with its vector record.
InitPinned ==
    /\ sql = [f \in Files |->
                IF f = "P"
                THEN { [Original(1, "factual", "project") EXCEPT
                          !.pinned = TRUE],
                       Original(2, "factual", "project") }
                ELSE IF f = GlobalFile THEN { Original(3, "factual", "global") }
                ELSE {}]
    /\ vec = [f \in Files |->
                { VecRecord(r.id, r.content, r.category, r.scope, r.groups) :
                    r \in sql[f] }]
    /\ legacy = [f \in Files |-> FALSE]
    /\ last = [op |-> "init", self |-> "P", arg |-> [id |-> -1],
               ret |-> NoMemory]
    /\ sessions = NoSessions
    /\ job = NoJob
    /\ events = NoEvents
    /\ pending = NoPending
    /\ managers = NoManagers
    /\ clock = 0

SpecPinned == InitPinned /\ [][NextCompact]_vars

\* C38: compaction never deletes a pinned memory: a memory that is pinned is
\* still stored and still pinned after every step of a compaction run.
C38_PinnedSurvive ==
    [][\A r \in AllRows(sql) :
         r.pinned => \E k \in AllRows(sql') : k.id = r.id /\ k.pinned]_vars

\* ------------------------------------------------- moves and the expiry
NextMoveExpiry ==
    \/ \E scope \in {"project", "global"}, pinned \in BOOLEAN,
          expires_at \in {NoTime, clock + 1} :
         Save("P", TheContent, NoCategory, scope, pinned, expires_at, {})
    \/ \E id \in ArgIds, new_scope \in ValidScopes :
         SetScope("P", id, new_scope,
                  IF new_scope = "group" THEN {"backend"} ELSE {})
    \/ \E id \in ArgIds, to_group \in { {}, {"backend"} } :
         Promote("P", id, "P", to_group)
    \/ \E id \in ArgIds : Unpromote("P", id, "P")

SpecMoveExpiry == Init /\ [][NextMoveExpiry]_vars

\* C39: promote, unpromote and set_scope across files give the row created
\* in the target file the expires_at, content, category, pinned flag, source
\* and metadata of the row removed from the source file.
C39_MoveKeepsExpiry ==
    [][(last'.op \in MoveOps /\ IsMemory(last'.ret))
         => \A m \in AllRows(sql) \ AllRows(sql') :
              m.id = last'.arg.id
                => /\ last'.ret \in AllRows(sql')
                   /\ last'.ret.expires_at = m.expires_at
                   /\ last'.ret.content = m.content
                   /\ last'.ret.category = m.category
                   /\ last'.ret.pinned = m.pinned
                   /\ last'.ret.source = m.source
                   /\ last'.ret.metadata = m.metadata]_vars

\* ------------------------------------------------- limit and the filters
NextLimit ==
    \/ \E scope \in {"project", "group"}, groups \in { {"backend"}, {"web"} },
          expires_at \in {NoTime, clock} :
         Save("P", TheContent, NoCategory, scope, FALSE, expires_at,
              IF scope = "group" THEN groups ELSE {})
    \/ \E limit \in 1..MaxClock, include_expired \in BOOLEAN :
         List("P", "project", NoCategory, FALSE, limit, include_expired)
    \/ \E group_name \in {NoName, "backend"}, limit \in 1..MaxClock,
          include_expired \in BOOLEAN :
         ListByGroup("P", group_name, FALSE, NoCategory, limit,
                     include_expired)

SpecLimit == Init /\ [][NextLimit]_vars

\* The stored memories that pass every filter of the list or list_by_group
\* call recorded in `last`.
PassingFilters ==
    { r \in sql[DbFile(last.self, IF last.op = "list" THEN last.arg.scope
                                  ELSE "group")] :
        /\ last.op = "list_by_group" =>
             /\ r.scope = "group"
             /\ last.arg.group_name # NoName => last.arg.group_name \in r.groups
        /\ last.arg.include_expired \/ ~is_expired(World, r.expires_at) }

\* C40: when at least n stored memories pass every filter of a list or
\* list_by_group call, the call with limit = n returns the n newest of them.
C40_LimitAfterFilters ==
    (last.op \in {"list", "list_by_group"}
       /\ Cardinality(PassingFilters) >= last.arg.limit)
      => last.ret.memories = TopByCreated(PassingFilters, last.arg.limit)

====
